---- MODULE Spec2Model ----
(***************************************************************************)
(* Scene / entity state machines of gamemaker_rust.  The repository holds   *)
(* two programs and one codec, each with its own specification:            *)
(*   Spec        the library crate (src/lib.rs, src/systems, src/ui),      *)
(*   EditorSpec  the stand-alone editor binary (src/main.rs),              *)
(*   CodecSpec   the scene codec of the library (src/scene/mod.rs,         *)
(*               src/ui/menus.rs) applied to drawn scenes and documents.   *)
(* The variables of the other two stay at their initial values in each.    *)
(*                                                                         *)
(* One frame of the Bevy `Update` schedule is modelled as                  *)
(*   BeginFrame (the inputs of the frame arrive)                           *)
(*   -> every registered system runs once, in any order                    *)
(*   -> EndFrame (the deferred Commands of the frame are applied).         *)
(* The systems are registered without ordering constraints                 *)
(* (lib.rs:52-91), so their order inside a frame is not determined and     *)
(* Commands (spawn, despawn, insert, remove) take effect only when the     *)
(* schedule has finished.                                                  *)
(*                                                                         *)
(* A run delivers at most MaxEvents input events, at most one per frame;    *)
(* frames without input are not limited.                                   *)
(*                                                                         *)
(* Numbers: positions, health and radii are the f32 values of the code,    *)
(* all of which are integral in the modelled runs.  Time is counted in     *)
(* tenths of a second.  The z coordinate travels with (x, y) through every *)
(* operation modelled here and is left out.  A rotation is the angle about *)
(* z in whole degrees.                                                     *)
(***************************************************************************)
EXTENDS Integers, Sequences, FiniteSets, TLC

\* ------------------------------------------------------------------ bounds
MaxEvents == 4       \* input events (key, button, click, pointer move) in one run
FrameDelta == 4      \* Time::delta_seconds of a frame, in tenths of a second
MaxSceneSize == 2    \* entities of a scene drawn for the codec
MaxShots == 3        \* shots of one run of the cooldown
MaxDelta == 2        \* longest frame of the cooldown, in tenths of a second
MaxImports == 3      \* import requests of one run of the asset importer
MaxTicks == 5        \* frames of one run of the camera

\* ------------------------------------------------------- program constants
PlayerSpeed == 200           \* units per second
ProjectileSpeed == 400       \* Projectile.velocity.y, units per second
ProjectileOffset == 30       \* spawn offset above the player
ShootCooldown == 3           \* 0.3 s in tenths
Damage == 25
OffScreen == 1000
Boundary == 400
PlayerHealth == 100
EnemyHealth == 50
PlayerRadius == 25
EnemyRadius == 20
ProjectileRadius == 5
PlayerScale == 50
EnemyScale == 40
ProjectileScaleX == 5
ProjectileScaleY == 15
EnemyY == 200

\* the camera (zoom in hundredths)
MoveRate == 5                \* position lerp factor per second
ZoomRate == 8                \* zoom lerp factor per second
ZoomMin == 10
ZoomMax == 500
ZoomStart == 100
LineStep == 10               \* target zoom per scrolled line
PixelStep == 1               \* target zoom per scrolled pixel

\* the asset importer
SupportedExtensions == {"png", "jpg", "jpeg"}

\* the editor binary (main.rs)
FirstId == 1                 \* SceneManager.next_id at start and after New Scene
MainEnemies == 5
MainEnemySpacing == 80
MainEnemyLeft == 160
MainEnemyY == 150
MainPlayerSize == 40
MainEnemySize == 30
QuickEnemyX == 100
MainProjectileOffset == 25
MainProjectileW == 8
MainProjectileH == 16
MainProjectileSpeed == 300
MaxLifetime == 30            \* 3 s in tenths

\* ---------------------------------------------------------------- Option<T>
None == <<>>
Some(v) == <<v>>
IsSome(o) == o # <<>>
Unwrap(o) == o[1]

Max(a, b) == IF a >= b THEN a ELSE b
Min(a, b) == IF a <= b THEN a ELSE b
Clamp(v, lo, hi) == Max(lo, Min(v, hi))
Dist2(p, q) == (p[1] - q[1]) * (p[1] - q[1]) + (p[2] - q[2]) * (p[2] - q[2])

EntityTypes == {"Player", "Enemy", "Projectile"}

VARIABLES
    ents,                 \* the World: live role-bearing entities, id -> components
    nextEntity,           \* next fresh Entity id (ids are never reused: generations)
    cmds,                 \* Commands queued in this frame, applied by EndFrame
    playing, paused, editor_mode,          \* GameState
    saved_scene_data,     \* EditorSceneState.saved_scene_data : Option<document>
    selected_entity,      \* SelectedEntity.entity : Option<Entity>
    dragging, drag_offset,                 \* DragState
    cursor,               \* window cursor position, in world coordinates
    mouse_world_position, \* EditorState.mouse_world_position
    following_entity, target_position,     \* CameraController
    should_spawn, spawn_entity_type, spawn_position,   \* SceneManager
    shots_fired, hits,    \* ShootingStats
    panicked,             \* a system panicked (the process has aborted)
    phase,                \* "idle" between frames, "frame" inside one
    input,                \* the input event of the current frame
    pending,              \* systems that still have to run in this frame
    events,               \* input events delivered so far
    origin,               \* history: entity -> what it was when Play was pressed
    harmed,               \* history: entities of origin damaged or despawned in play
    camera_log,           \* history: what camera_movement did when it last ran
    lifecycle,            \* history: "edit", "play", "stop_next", "stopping",
                          \*          "restoring", "stopped"
    \* ---- the editor binary (main.rs)
    main_ents,            \* the World of the editor: Entity -> components
    main_nextEntity,      \* next fresh Entity id
    main_cmds,            \* Commands queued in this frame
    is_playing,           \* GameState.is_playing
    main_selected_entity, \* SelectedEntity.entity : Option<Entity>
    dragging_entity,      \* DragState.dragging_entity : Option<Entity>
    follow_entity,        \* CameraController.follow_entity : Option<Entity>
    next_id,              \* SceneManager.next_id
    scene_file,           \* the file at SceneManager.save_path
    deleted,              \* history: entities handed to delete_entity
    scenario,             \* history: progress of "save, New Scene, load"
    \* ---- the codec
    scene,                \* a live scene: Entity -> components
    document,             \* Option<document> written from the scene or by hand
    writer,               \* which writer produced the document
    loaded,               \* Option<World>: the document loaded into an empty World
    \* ---- the camera
    camera_translation,   \* Transform.translation (x, y) of the camera entity
    instant_movement,     \* CameraController.instant_movement
    zoom, target_zoom,    \* CameraController.zoom, target_zoom, in hundredths
    last_mouse_pos,       \* camera_controls' Local<Option<Vec2>>
    right_pressed,        \* ButtonInput: the right mouse button is down
    scroll_events,        \* MouseWheel events not yet read
    ticks,                \* frames run so far
    \* ---- scene::save_scene and its caller
    save_fault,           \* the step of save_scene that the system made fail
    save_result,          \* the Result that save_scene returned
    scene_next_id,        \* SceneManager.next_id of the library
    \* ---- the asset importer and the asset browser
    import_queue,         \* AssetImporter.import_queue
    pending_imports,      \* AssetImporter.pending_imports
    failed_imports,       \* AssetImporter.failed_imports: (path, error)
    loading_assets,       \* AssetRegistry.loading_assets (its keys)
    loaded_images,        \* AssetRegistry.loaded_images (its keys)
    show_import_dialog,   \* AssetBrowserState.show_import_dialog
    import_path,          \* AssetBrowserState.import_path
    import_result,        \* the Result of the last import_asset call
    imports,              \* import requests made so far
    \* ---- the keyboard shortcuts
    debug_mode,           \* GameState.debug_mode
    tick_start,           \* history: paused and debug_mode when the frame began
    \* ---- the shooting cooldown
    tick_delta,           \* Time::delta_seconds of the frame, in tenths
    cooldown,             \* Shooting.cooldown of the player, in tenths
    since_shot,           \* history: playing time since the player fired
    spawned               \* history: projectile spawns queued by player_shooting

worldVars == <<ents, nextEntity, cmds>>
gameVars == <<playing, paused, editor_mode>>
selVars == <<selected_entity, dragging, drag_offset>>
camVars == <<following_entity, target_position>>
spawnVars == <<should_spawn, spawn_entity_type, spawn_position>>
statVars == <<shots_fired, hits>>
histVars == <<origin, harmed, camera_log, lifecycle>>
frameVars == <<phase, input, pending, events, cursor, panicked>>
engineVars == <<ents, nextEntity, cmds, playing, paused, editor_mode, saved_scene_data,
                selected_entity, dragging, drag_offset, mouse_world_position,
                following_entity, target_position, should_spawn, spawn_entity_type,
                spawn_position, shots_fired, hits, origin, harmed, camera_log, lifecycle>>
editorVars == <<main_ents, main_nextEntity, main_cmds, is_playing, main_selected_entity,
                dragging_entity, follow_entity, next_id, scene_file, deleted, scenario>>
codecVars == <<scene, document, writer, loaded>>
cameraVars == <<camera_translation, instant_movement, zoom, target_zoom, last_mouse_pos,
                right_pressed, scroll_events, ticks>>
saveVars == <<save_fault, save_result, scene_next_id>>
assetVars == <<import_queue, pending_imports, failed_imports, loading_assets, loaded_images,
               show_import_dialog, import_path, import_result, imports>>
keyVars == <<debug_mode, tick_start>>
coolVars == <<tick_delta, cooldown, since_shot, spawned>>
notCamera == <<saveVars, assetVars, keyVars, coolVars>>
auxVars == <<cameraVars, saveVars, assetVars, keyVars, coolVars>>
vars == <<ents, nextEntity, cmds, playing, paused, editor_mode, saved_scene_data,
          selected_entity, dragging, drag_offset, cursor, mouse_world_position,
          following_entity, target_position, should_spawn, spawn_entity_type,
          spawn_position, shots_fired, hits, panicked, phase, input, pending,
          events, origin, harmed, camera_log, lifecycle, editorVars, codecVars, auxVars>>

\* ------------------------------------------------------------ the World
Live == DOMAIN ents
IsAlive(e) == e \in Live

\* The ids of S in the order a query yields them, taken to be spawn order
\* (ascending ids).
RECURSIVE IterOrder(_)
IterOrder(S) ==
    IF S = {} THEN <<>>
    ELSE LET m == CHOOSE x \in S : \A y \in S : x <= y
         IN <<m>> \o IterOrder(S \ {m})

WithRole(w, r) == {e \in DOMAIN w : w[e].role = r}
HasCollision(w) == {e \in DOMAIN w : IsSome(w[e].collision)}

\* systems::setup_engine: the player and the enemies of the start scene.
\* Of the five enemies ((i - 2) * 150, 200), i in 0..5, the model keeps i = 2.
SetupPlayer ==
    [role |-> "Player", pos |-> <<0, 0>>, scale |-> <<PlayerScale, PlayerScale>>,
     health |-> Some(<<PlayerHealth, PlayerHealth>>), collision |-> Some(PlayerRadius),
     shooting |-> Some(0), selected |-> FALSE, sprite_asset |-> None, rotation |-> 0]
SetupEnemy ==
    [role |-> "Enemy", pos |-> <<0, EnemyY>>, scale |-> <<EnemyScale, EnemyScale>>,
     health |-> Some(<<EnemyHealth, EnemyHealth>>), collision |-> Some(EnemyRadius),
     shooting |-> None, selected |-> FALSE, sprite_asset |-> None, rotation |-> 0]
setup_engine == (1 :> SetupPlayer) @@ (2 :> SetupEnemy)

\* ------------------------------------------------------------ the codec
\* A document is the sequence of SerializableEntity records; the RON text
\* of a document carries exactly these fields, so the text is represented
\* by the document it denotes.
\* Quat::from_rotation_z and Quat::to_euler(ZYX).0: a rotation about z is kept
\* as its angle in (-180, 180], which is what to_euler returns for it.
from_rotation_z(r) == ((r + 179) % 360) - 179
to_euler_z(q) == q

\* A conversion that writes no rotation.
SerializableTransformFrom_unrotated(c) ==
    [x |-> c.pos[1], y |-> c.pos[2], rotation |-> 0,
     scale_x |-> c.scale[1], scale_y |-> c.scale[2]]

SerializableTransformFrom(c) ==
    [x |-> c.pos[1], y |-> c.pos[2], rotation |-> to_euler_z(c.rotation),
     scale_x |-> c.scale[1], scale_y |-> c.scale[2]]

\* ui::menus::save_scene_state_for_play: the play-mode snapshot.
RECURSIVE SnapshotRecords(_, _)
SnapshotRecords(w, order) ==
    IF order = <<>> THEN <<>>
    ELSE LET c == w[Head(order)]
             rest == SnapshotRecords(w, Tail(order))
         IN IF c.role \in {"Player", "Enemy"}
            THEN <<[entity_type |-> c.role,
                    transform |-> SerializableTransformFrom(c),
                    health |-> c.health,
                    collision_radius |-> c.collision,
                    sprite_asset |-> None]>> \o rest
            ELSE rest
save_scene_state_for_play(w) == Some(SnapshotRecords(w, IterOrder(DOMAIN w)))

DefaultScale(t) ==
    CASE t = "Player" -> <<PlayerScale, PlayerScale>>
      [] t = "Enemy" -> <<EnemyScale, EnemyScale>>
      [] OTHER -> <<ProjectileScaleX, ProjectileScaleY>>
DefaultHealth(t) == IF t = "Player" THEN PlayerHealth ELSE EnemyHealth
DefaultRadius(t) ==
    CASE t = "Player" -> PlayerRadius
      [] t = "Enemy" -> EnemyRadius
      [] OTHER -> ProjectileRadius

\* scene::spawn_entity_from_data: the components of the entity spawned for a record.
spawn_entity_from_data(d) ==
    LET base == DefaultScale(d.entity_type)
        sprite_scale ==
            IF IsSome(d.sprite_asset)
            THEN <<base[1] * Unwrap(d.sprite_asset).scale[1],
                   base[2] * Unwrap(d.sprite_asset).scale[2]>>
            ELSE base
    IN [role |-> d.entity_type,
        pos |-> <<d.transform.x, d.transform.y>>,
        scale |-> sprite_scale,
        health |->
            IF d.entity_type = "Projectile" THEN None
            ELSE IF IsSome(d.health) THEN d.health
            ELSE Some(<<DefaultHealth(d.entity_type), DefaultHealth(d.entity_type)>>),
        collision |->
            IF IsSome(d.collision_radius) THEN d.collision_radius
            ELSE Some(DefaultRadius(d.entity_type)),
        shooting |-> IF d.entity_type = "Player" THEN Some(0) ELSE None,
        selected |-> FALSE,
        sprite_asset |-> d.sprite_asset,
        rotation |-> from_rotation_z(d.transform.rotation)]

\* scene::spawn_entity: the record built for a spawn request.
spawn_entity(t, position) ==
    spawn_entity_from_data(
        [entity_type |-> t,
         transform |-> [x |-> position[1], y |-> position[2], rotation |-> 0,
                        scale_x |-> 1, scale_y |-> 1],
         health |-> IF t = "Projectile" THEN None
                    ELSE Some(<<DefaultHealth(t), DefaultHealth(t)>>),
         collision_radius |-> Some(DefaultRadius(t)),
         sprite_asset |-> None])

\* ------------------------------------------------------------ Commands
Spawn(c) == [op |-> "spawn", data |-> c, e |-> 0]
Despawn(e) == [op |-> "despawn", data |-> <<>>, e |-> e]
InsertSelected(e) == [op |-> "insert_selected", data |-> <<>>, e |-> e]
RemoveSelected(e) == [op |-> "remove_selected", data |-> <<>>, e |-> e]

\* scene::load_scene_from_string: one spawn per record of the document.
load_scene_from_string(doc) == [i \in 1 .. Len(doc) |-> Spawn(spawn_entity_from_data(doc[i]))]

DespawnAll(order) == [i \in 1 .. Len(order) |-> Despawn(order[i])]

\* The World after one command: despawn of a dead entity only warns, remove
\* on a dead entity is skipped, insert on a dead entity panics (B0003).
ApplyCommand(st, c) ==
    CASE c.op = "spawn" ->
            [st EXCEPT !.w = (st.next :> c.data) @@ st.w, !.next = st.next + 1]
      [] c.op = "despawn" ->
            [st EXCEPT !.w = [e \in DOMAIN st.w \ {c.e} |-> st.w[e]]]
      [] c.op = "insert_selected" ->
            IF c.e \in DOMAIN st.w
            THEN [st EXCEPT !.w = [st.w EXCEPT ![c.e].selected = TRUE]]
            ELSE [st EXCEPT !.panic = TRUE]
      [] c.op = "insert_tag" ->
            IF c.e \in DOMAIN st.w
            THEN [st EXCEPT !.w = [st.w EXCEPT ![c.e].tags = @ \cup {Unwrap(c.data)}]]
            ELSE [st EXCEPT !.panic = TRUE]
      [] OTHER ->
            IF c.e \in DOMAIN st.w
            THEN [st EXCEPT !.w = [st.w EXCEPT ![c.e].selected = FALSE]]
            ELSE st

RECURSIVE ApplyCommands(_, _)
ApplyCommands(st, q) ==
    IF q = <<>> \/ st.panic THEN st
    ELSE ApplyCommands(ApplyCommand(st, Head(q)), Tail(q))

\* The role-bearing entities as the claims compare them: a bag of
\* (role, position, health pair, collision value, presentation binding).
Descriptor(c) ==
    [role |-> c.role, pos |-> c.pos, health |-> c.health,
     collision |-> c.collision, sprite_asset |-> c.sprite_asset]
Described(w) == [e \in DOMAIN w |-> Descriptor(w[e])]
BagOf(f) ==
    LET ds == {f[e] : e \in DOMAIN f}
    IN [d \in ds |-> Cardinality({e \in DOMAIN f : f[e] = d})]
EntityBag(w) == BagOf(Described(w))

\* ------------------------------------------------------------ the frame
\* Cursor positions offered to the pointer: on the player, on the enemy,
\* and a point beyond the off-screen limit.
CursorPoints == {<<0, 0>>, <<0, EnemyY>>, <<0, OffScreen + 100>>}

In(k, a, e) == [k |-> k, a |-> a, e |-> e]
NoInput == In("none", "", 0)

Systems ==
    {"ui", "game_controls_system", "debug_info_system", "handle_play_mode_transition",
     "player_movement", "player_shooting", "projectile_movement", "projectile_cleanup",
     "update_shooting_cooldowns", "collision_detection", "boundary_collision",
     "mouse_interaction", "entity_dragging", "camera_movement",
     "update_mouse_world_position", "entity_spawn_system"}

Enabled == playing /\ ~paused
OffScreenAt(p) == p[2] > OffScreen \/ p[2] < -OffScreen \/ p[1] > OffScreen \/ p[1] < -OffScreen
InBounds(p) == p[1] >= -Boundary /\ p[1] <= Boundary /\ p[2] >= -Boundary /\ p[2] <= Boundary

\* The entities camera_movement can read: Query<&Transform, (Without<Camera>, With<Player>)>.
Followable == WithRole(ents, "Player")

\* collision_detection's test: distance < radius + radius.
Collides(a, b) ==
    LET r == Unwrap(a.collision) + Unwrap(b.collision)
    IN Dist2(a.pos, b.pos) < r * r

\* The positions entity e can have while a frame with input i runs, when no
\* entity is dragged: where it is, where its movement system (the W key for
\* a player, the velocity for a projectile) takes it, and what the boundary
\* clamp makes of either.
Reach(e, i, mayPlay) ==
    LET c == ents[e]
        d == CASE c.role = "Projectile" -> (ProjectileSpeed * FrameDelta) \div 10
               [] c.role = "Player" /\ i.k = "key" /\ i.a = "W" ->
                      (PlayerSpeed * FrameDelta) \div 10
               [] OTHER -> 0
        cl(q) == IF IsSome(c.collision)
                 THEN <<Clamp(q[1], -Boundary, Boundary), Clamp(q[2], -Boundary, Boundary)>>
                 ELSE q
        up(q) == <<q[1], q[2] + d>>
    IN IF mayPlay
       THEN {c.pos, up(c.pos), cl(c.pos), up(cl(c.pos)), cl(up(c.pos))}
       ELSE {c.pos}

\* Hit test of mouse_interaction: distance < max(scale.x, scale.y) * 0.5.
Hit(c, p) ==
    LET size == Max(c.scale[1], c.scale[2])
    IN 4 * Dist2(c.pos, p) < size * size

\* Whether entity_dragging can move entity e in a frame with input i and
\* cursor position c: a pointer-down selects and drags an entity under the
\* pointer; during a drag the selected entity (or the one the hierarchy
\* selects in this frame) follows the pointer.  An entity that sits at its
\* drag position while neither the pointer nor a movement system displaces
\* it is not moved.
Dragged(e, i, c, mayPlay) ==
    \/ /\ i.k = "mouse" /\ i.a = "down"
       /\ \E q \in Reach(e, i, mayPlay), m \in {mouse_world_position, c} :
              Hit([ents[e] EXCEPT !.pos = q], m)
       /\ c # mouse_world_position \/ Reach(e, i, mayPlay) # {ents[e].pos}
    \/ dragging /\ i.k = "ui" /\ i.a = "hier_select" /\ i.e = e
    \/ /\ dragging /\ selected_entity = Some(e)
       /\ \/ c # mouse_world_position
          \/ ents[e].pos # <<mouse_world_position[1] + drag_offset[1],
                             mouse_world_position[2] + drag_offset[2]>>
          \/ Reach(e, i, mayPlay) # {ents[e].pos}

\* Whether system s can do anything in a frame that starts in the current
\* state with input i (and cursor position c).  A system for which this is
\* false is a no-op wherever it runs in the frame, so the frame is the same
\* with and without it: only the others are scheduled.
MayAct(s, i, c) ==
    LET mayPlay == playing \/ (i.k = "ui" /\ i.a \in {"menu_play", "panel_play"})
        projectiles == WithRole(ents, "Projectile")
        moved(e) == Dragged(e, i, c, mayPlay)
        reach(e) == Reach(e, i, mayPlay)
    IN CASE s = "ui" -> i.k = "ui"
         [] s \in {"game_controls_system", "debug_info_system"} -> i.k = "key" /\ i.a = "P"
         [] s = "handle_play_mode_transition" ->
                \/ IsSome(saved_scene_data) /\ ~playing
                \/ i.k = "ui" /\ i.a \in {"menu_stop", "panel_stop"}
         [] s = "player_movement" -> mayPlay /\ i.k = "key" /\ i.a = "W"
         [] s = "player_shooting" ->
                mayPlay /\ \E e \in WithRole(ents, "Player") :
                    /\ IsSome(ents[e].shooting)
                    /\ (Unwrap(ents[e].shooting) > 0 \/ (i.k = "key" /\ i.a = "Space"))
         [] s = "projectile_movement" -> mayPlay /\ projectiles # {}
         [] s = "projectile_cleanup" ->
                \E e \in projectiles : moved(e) \/ \E q \in reach(e) : OffScreenAt(q)
         [] s = "update_shooting_cooldowns" ->
                mayPlay /\ \E e \in Live :
                    /\ IsSome(ents[e].shooting)
                    /\ (Unwrap(ents[e].shooting) > 0 \/ (i.k = "key" /\ i.a = "Space"))
         [] s = "collision_detection" ->
                mayPlay /\ \E e \in projectiles, f \in WithRole(ents, "Enemy") :
                    \/ moved(e) \/ moved(f)
                    \/ /\ IsSome(ents[e].collision) /\ IsSome(ents[f].collision)
                       /\ \E q \in reach(e), r \in reach(f) :
                              Collides([ents[e] EXCEPT !.pos = q], [ents[f] EXCEPT !.pos = r])
         [] s = "boundary_collision" ->
                mayPlay /\ \E e \in HasCollision(ents) :
                    moved(e) \/ \E q \in reach(e) : ~InBounds(q)
         [] s = "mouse_interaction" -> i.k = "mouse" /\ (i.a = "down" \/ dragging)
         [] s = "entity_dragging" -> \E e \in Live : moved(e)
         [] s = "camera_movement" ->
                /\ IsSome(following_entity)
                /\ LET e == Unwrap(following_entity)
                   IN ~(/\ e \in Followable
                        /\ camera_log = "tracked"
                        /\ target_position = ents[e].pos
                        /\ ~moved(e)
                        /\ reach(e) = {ents[e].pos})
         [] s = "update_mouse_world_position" -> c # mouse_world_position
         [] OTHER -> should_spawn \/ (i.k = "ui" /\ i.a = "spawn_at_mouse")

Listed == WithRole(ents, "Player") \cup WithRole(ents, "Enemy")

\* The inputs a frame can bring: nothing, a key (P just pressed; Space or W
\* held), a mouse button edge, a cursor move, or one click in the UI.
FrameInputs ==
    {NoInput}
    \cup {In("key", a, 0) : a \in {"P", "Space", "W"}}
    \cup {In("mouse", a, 0) : a \in {"down", "up"}}
    \cup {In("ui", a, 0) : a \in {"menu_play", "menu_stop", "panel_play", "panel_stop",
                                 "spawn_at_mouse", "pick_projectile"}}
    \cup {In("ui", a, e) : a \in {"hier_select", "hier_delete"}, e \in Listed}

StartFrame(i, c) ==
    /\ phase = "idle"
    /\ ~panicked
    /\ phase' = "frame"
    /\ input' = i
    /\ cursor' = c
    /\ pending' = {s \in Systems : MayAct(s, i, c)}
    /\ events' = IF i = NoInput /\ c = cursor THEN events ELSE events + 1
    /\ events' <= MaxEvents
    /\ lifecycle' =
           CASE lifecycle = "stopped" -> "edit"
             [] lifecycle = "stop_next" -> "stopping"
             [] OTHER -> lifecycle
    /\ UNCHANGED <<worldVars, gameVars, saved_scene_data, selVars, mouse_world_position,
                   camVars, spawnVars, statVars, panicked, origin, harmed, camera_log>>
    /\ UNCHANGED <<editorVars, codecVars, auxVars>>

BeginFrame == \E i \in FrameInputs : StartFrame(i, cursor)

\* The pointer moved since the last frame.
CursorMoved == \E c \in CursorPoints \ {cursor} : StartFrame(NoInput, c)

Runs(s) ==
    /\ phase = "frame"
    /\ ~panicked
    /\ s \in pending
    /\ pending' = pending \ {s}
    /\ UNCHANGED <<phase, input, cursor, events, editorVars, codecVars, auxVars>>

\* Commands::entity(e) panics when e does not exist.
Panic ==
    /\ panicked' = TRUE
    /\ UNCHANGED <<worldVars, gameVars, saved_scene_data, selVars, mouse_world_position,
                   camVars, spawnVars, statVars, histVars>>

\* ------------------------------------------------------------ the UI
\* History kept when play starts.
PlayPressed ==
    /\ origin' = Described(ents)
    /\ harmed' = {}
    /\ lifecycle' = "play"
    /\ UNCHANGED camera_log

\* A Play/Pause button that takes the snapshot on every click.
MenuPlayPause_resnapshot ==
    /\ Runs("ui") /\ input.a = "menu_play"
    /\ saved_scene_data' = save_scene_state_for_play(ents)
    /\ IF playing
       THEN /\ paused' = ~paused
            /\ UNCHANGED <<playing, editor_mode, histVars>>
       ELSE /\ playing' = TRUE
            /\ editor_mode' = FALSE
            /\ paused' = FALSE
            /\ PlayPressed
    /\ UNCHANGED <<worldVars, selVars, mouse_world_position, camVars, spawnVars,
                   statVars, panicked>>

\* ui::menus::render_menu_bar, the Play/Pause button.
MenuPlayPause ==
    /\ Runs("ui") /\ input.a = "menu_play"
    /\ IF playing
       THEN /\ paused' = ~paused
            /\ UNCHANGED <<playing, editor_mode, saved_scene_data, histVars>>
       ELSE /\ saved_scene_data' = save_scene_state_for_play(ents)
            /\ playing' = TRUE
            /\ editor_mode' = FALSE
            /\ paused' = FALSE
            /\ PlayPressed
    /\ UNCHANGED <<worldVars, selVars, mouse_world_position, camVars, spawnVars,
                   statVars, panicked>>

\* The Stop button of the menu bar and of the game-controls panel
\* (ui::menus::render_menu_bar, ui::editor::render_game_controls_content).
StopClicked ==
    /\ playing' = FALSE
    /\ editor_mode' = TRUE
    /\ paused' = FALSE
    /\ lifecycle' =
           IF lifecycle # "play" THEN lifecycle
           ELSE IF ~IsSome(saved_scene_data) THEN "restoring"
           ELSE IF "handle_play_mode_transition" \in pending THEN "stopping"
           ELSE "stop_next"
    /\ UNCHANGED <<worldVars, saved_scene_data, selVars, mouse_world_position, camVars,
                   spawnVars, statVars, panicked, origin, harmed, camera_log>>

MenuStop == Runs("ui") /\ input.a = "menu_stop" /\ StopClicked

\* ui::editor::render_game_controls_content, the Play/Pause button.
PanelPlayPause ==
    /\ Runs("ui") /\ input.a = "panel_play"
    /\ IF playing
       THEN /\ paused' = ~paused
            /\ UNCHANGED <<playing, editor_mode, histVars>>
       ELSE /\ playing' = TRUE
            /\ editor_mode' = FALSE
            /\ paused' = FALSE
            /\ PlayPressed
    /\ UNCHANGED <<worldVars, saved_scene_data, selVars, mouse_world_position, camVars,
                   spawnVars, statVars, panicked>>

PanelStop == Runs("ui") /\ input.a = "panel_stop" /\ StopClicked

\* ui::hierarchy::render_hierarchy_content, the entity name button.
HierarchySelect ==
    /\ Runs("ui") /\ input.a = "hier_select"
    /\ selected_entity' = Some(input.e)
    /\ UNCHANGED <<worldVars, gameVars, saved_scene_data, dragging, drag_offset,
                   mouse_world_position, camVars, spawnVars, statVars, panicked, histVars>>

\* ui::hierarchy::render_hierarchy_content, the delete button.
HierarchyDelete ==
    /\ Runs("ui") /\ input.a = "hier_delete"
    /\ selected_entity' = IF selected_entity = Some(input.e) THEN None ELSE selected_entity
    /\ cmds' = Append(cmds, Despawn(input.e))
    /\ harmed' = IF playing THEN harmed \cup ({input.e} \cap DOMAIN origin) ELSE harmed
    /\ UNCHANGED <<ents, nextEntity, gameVars, saved_scene_data, dragging, drag_offset,
                   mouse_world_position, camVars, spawnVars, statVars, panicked,
                   origin, camera_log, lifecycle>>

\* ui::editor::render_entity_spawner_content: the type combo box and "Spawn at Mouse".
SpawnerPickType ==
    /\ Runs("ui") /\ input.a = "pick_projectile"
    /\ spawn_entity_type' = "Projectile"
    /\ UNCHANGED <<worldVars, gameVars, saved_scene_data, selVars, mouse_world_position,
                   camVars, should_spawn, spawn_position, statVars, panicked, histVars>>

SpawnAtMouse ==
    /\ Runs("ui") /\ input.a = "spawn_at_mouse"
    /\ spawn_position' = mouse_world_position
    /\ should_spawn' = TRUE
    /\ UNCHANGED <<worldVars, gameVars, saved_scene_data, selVars, mouse_world_position,
                   camVars, spawn_entity_type, statVars, panicked, histVars>>

\* ------------------------------------------------------------ game controls
toggle_pause == IF playing THEN ~paused ELSE paused

\* systems::game_controls::game_controls_system (the P key).
game_controls_system ==
    /\ Runs("game_controls_system")
    /\ paused' = IF input.k = "key" /\ input.a = "P" THEN toggle_pause ELSE paused
    /\ UNCHANGED <<worldVars, playing, editor_mode, saved_scene_data, selVars,
                   mouse_world_position, camVars, spawnVars, statVars, panicked, histVars>>

\* systems::editor::debug_info_system (the P key).
debug_info_system ==
    /\ Runs("debug_info_system")
    /\ paused' = IF input.k = "key" /\ input.a = "P" THEN ~paused ELSE paused
    /\ UNCHANGED <<worldVars, playing, editor_mode, saved_scene_data, selVars,
                   mouse_world_position, camVars, spawnVars, statVars, panicked, histVars>>

RoleBearing(w) == {e \in DOMAIN w : w[e].role \in EntityTypes}

\* The Commands queued by handle_play_mode_transition when it restores doc.
RestoreCommands(doc) ==
    DespawnAll(IterOrder(RoleBearing(ents))) \o load_scene_from_string(doc)

\* A transition that restores the snapshot and keeps it.
handle_play_mode_transition_keeping ==
    /\ Runs("handle_play_mode_transition")
    /\ IF ~playing /\ editor_mode /\ IsSome(saved_scene_data)
       THEN cmds' = cmds \o RestoreCommands(Unwrap(saved_scene_data))
       ELSE UNCHANGED cmds
    /\ lifecycle' = IF lifecycle = "stopping" /\ ~playing /\ editor_mode
                    THEN "restoring" ELSE lifecycle
    /\ UNCHANGED <<ents, nextEntity, gameVars, saved_scene_data, selVars,
                   mouse_world_position, camVars, spawnVars, statVars, panicked, origin,
                   harmed, camera_log>>

\* A transition that clears the scene without looking for a snapshot.
handle_play_mode_transition_unguarded ==
    /\ Runs("handle_play_mode_transition")
    /\ IF ~playing /\ editor_mode
       THEN /\ cmds' = cmds \o RestoreCommands(IF IsSome(saved_scene_data)
                                               THEN Unwrap(saved_scene_data) ELSE <<>>)
            /\ saved_scene_data' = None
       ELSE UNCHANGED <<cmds, saved_scene_data>>
    /\ lifecycle' = IF lifecycle = "stopping" /\ ~playing /\ editor_mode
                    THEN "restoring" ELSE lifecycle
    /\ UNCHANGED <<ents, nextEntity, gameVars, selVars, mouse_world_position, camVars,
                   spawnVars, statVars, panicked, origin, harmed, camera_log>>

\* systems::game_controls::handle_play_mode_transition.
handle_play_mode_transition ==
    /\ Runs("handle_play_mode_transition")
    /\ IF ~playing /\ editor_mode /\ IsSome(saved_scene_data)
       THEN /\ cmds' = cmds \o RestoreCommands(Unwrap(saved_scene_data))
            /\ saved_scene_data' = None
       ELSE UNCHANGED <<cmds, saved_scene_data>>
    /\ lifecycle' = IF lifecycle = "stopping" /\ ~playing /\ editor_mode
                    THEN "restoring" ELSE lifecycle
    /\ UNCHANGED <<ents, nextEntity, gameVars, selVars, mouse_world_position, camVars,
                   spawnVars, statVars, panicked, origin, harmed, camera_log>>

\* ------------------------------------------------------------ gameplay
Step(speed) == (speed * FrameDelta) \div 10

\* systems::input::player_movement (W held).
player_movement ==
    /\ Runs("player_movement")
    /\ ents' = IF Enabled /\ input.k = "key" /\ input.a = "W"
               THEN [e \in Live |->
                        IF ents[e].role = "Player"
                        THEN [ents[e] EXCEPT !.pos = <<@[1], @[2] + Step(PlayerSpeed)>>]
                        ELSE ents[e]]
               ELSE ents
    /\ UNCHANGED <<nextEntity, cmds, gameVars, saved_scene_data, selVars,
                   mouse_world_position, camVars, spawnVars, statVars, panicked, histVars>>

Shooters == {e \in WithRole(ents, "Player") : IsSome(ents[e].shooting)}
Cooled(cd) == IF cd > 0 THEN cd - FrameDelta ELSE cd
Fires(e) ==
    input.k = "key" /\ input.a = "Space" /\ Cooled(Unwrap(ents[e].shooting)) <= 0

FiredProjectile(c) ==
    [role |-> "Projectile", pos |-> <<c.pos[1], c.pos[2] + ProjectileOffset>>,
     scale |-> <<ProjectileScaleX, ProjectileScaleY>>, health |-> None,
     collision |-> Some(ProjectileRadius), shooting |-> None, selected |-> FALSE,
     sprite_asset |-> None, rotation |-> 0]

\* systems::gameplay::player_shooting.
player_shooting ==
    /\ Runs("player_shooting")
    /\ IF Enabled
       THEN LET firing == IterOrder({e \in Shooters : Fires(e)})
            IN /\ ents' = [e \in Live |->
                             IF e \in Shooters
                             THEN [ents[e] EXCEPT !.shooting =
                                      IF Fires(e) THEN Some(ShootCooldown)
                                      ELSE Some(Cooled(Unwrap(@)))]
                             ELSE ents[e]]
               /\ cmds' = cmds \o [i \in 1 .. Len(firing) |->
                                      Spawn(FiredProjectile(ents[firing[i]]))]
               /\ shots_fired' = shots_fired + Len(firing)
       ELSE UNCHANGED <<ents, cmds, shots_fired>>
    /\ UNCHANGED <<nextEntity, gameVars, saved_scene_data, selVars, mouse_world_position,
                   camVars, spawnVars, hits, panicked, histVars>>

\* systems::gameplay::projectile_movement (velocity (0, 400)).
projectile_movement ==
    /\ Runs("projectile_movement")
    /\ ents' = IF Enabled
               THEN [e \in Live |->
                        IF ents[e].role = "Projectile"
                        THEN [ents[e] EXCEPT !.pos = <<@[1], @[2] + Step(ProjectileSpeed)>>]
                        ELSE ents[e]]
               ELSE ents
    /\ UNCHANGED <<nextEntity, cmds, gameVars, saved_scene_data, selVars,
                   mouse_world_position, camVars, spawnVars, statVars, panicked, histVars>>

\* systems::gameplay::projectile_cleanup: runs whatever the game state is.
projectile_cleanup ==
    /\ Runs("projectile_cleanup")
    /\ cmds' = cmds \o DespawnAll(IterOrder({e \in WithRole(ents, "Projectile") :
                                                OffScreenAt(ents[e].pos)}))
    /\ UNCHANGED <<ents, nextEntity, gameVars, saved_scene_data, selVars,
                   mouse_world_position, camVars, spawnVars, statVars, panicked, histVars>>

\* systems::gameplay::update_shooting_cooldowns.
update_shooting_cooldowns ==
    /\ Runs("update_shooting_cooldowns")
    /\ ents' = IF Enabled
               THEN [e \in Live |->
                        IF IsSome(ents[e].shooting)
                        THEN [ents[e] EXCEPT !.shooting = Some(Cooled(Unwrap(@)))]
                        ELSE ents[e]]
               ELSE ents
    /\ UNCHANGED <<nextEntity, cmds, gameVars, saved_scene_data, selVars,
                   mouse_world_position, camVars, spawnVars, statVars, panicked, histVars>>

\* A hit that leaves the enemy in the World whatever its health.
HitBy_sparing(st, p) ==
    LET targets == {e \in WithRole(st.w, "Enemy") :
                       /\ IsSome(st.w[e].collision) /\ IsSome(st.w[e].health)
                       /\ Collides(st.w[p], st.w[e])}
    IN IF targets = {} THEN st
       ELSE LET e == Head(IterOrder(targets))
                h == Unwrap(st.w[e].health)
            IN [w |-> [st.w EXCEPT ![e].health = Some(<<h[1] - Damage, h[2]>>)],
                hits |-> st.hits + 1,
                hurt |-> st.hurt \cup {e},
                q |-> st.q \o <<Despawn(p)>>]

\* One projectile against the enemies in iteration order: the first enemy in
\* range is damaged, the projectile and (at health <= 0) the enemy are despawned.
HitBy(st, p) ==
    LET targets == {e \in WithRole(st.w, "Enemy") :
                       /\ IsSome(st.w[e].collision) /\ IsSome(st.w[e].health)
                       /\ Collides(st.w[p], st.w[e])}
    IN IF targets = {} THEN st
       ELSE LET e == Head(IterOrder(targets))
                h == Unwrap(st.w[e].health)
                left == h[1] - Damage
            IN [w |-> [st.w EXCEPT ![e].health = Some(<<left, h[2]>>)],
                hits |-> st.hits + 1,
                hurt |-> st.hurt \cup {e},
                q |-> st.q \o <<Despawn(p)>>
                           \o (IF left <= 0 THEN <<Despawn(e)>> ELSE <<>>)]

RECURSIVE Collisions(_, _)
Collisions(st, order) ==
    IF order = <<>> THEN st
    ELSE Collisions(HitBy(st, Head(order)), Tail(order))

\* systems::gameplay::collision_detection.
collision_detection ==
    /\ Runs("collision_detection")
    /\ IF Enabled
       THEN LET ps == {p \in WithRole(ents, "Projectile") : IsSome(ents[p].collision)}
                r == Collisions([w |-> ents, hits |-> hits, hurt |-> {}, q |-> <<>>],
                                IterOrder(ps))
            IN /\ ents' = r.w
               /\ hits' = r.hits
               /\ cmds' = cmds \o r.q
               /\ harmed' = harmed \cup (r.hurt \cap DOMAIN origin)
       ELSE UNCHANGED <<ents, hits, cmds, harmed>>
    /\ UNCHANGED <<nextEntity, gameVars, saved_scene_data, selVars, mouse_world_position,
                   camVars, spawnVars, shots_fired, panicked, origin, camera_log, lifecycle>>

\* systems::gameplay::boundary_collision.
boundary_collision ==
    /\ Runs("boundary_collision")
    /\ ents' = IF Enabled
               THEN [e \in Live |->
                        IF IsSome(ents[e].collision)
                        THEN [ents[e] EXCEPT !.pos = <<Clamp(@[1], -Boundary, Boundary),
                                                       Clamp(@[2], -Boundary, Boundary)>>]
                        ELSE ents[e]]
               ELSE ents
    /\ UNCHANGED <<nextEntity, cmds, gameVars, saved_scene_data, selVars,
                   mouse_world_position, camVars, spawnVars, statVars, panicked, histVars>>

\* ------------------------------------------------------------ selection and drag
\* What the search loop of mouse_interaction can end with: the closest hit
\* entity (among equally close ones the first the query yields, and the query
\* order is not fixed by the code), or nothing.
ClosestEntity(p) ==
    LET hitSet == {e \in Live : Hit(ents[e], p)}
        best == {e \in hitSet : \A f \in hitSet :
                    Dist2(ents[e].pos, p) <= Dist2(ents[f].pos, p)}
    IN IF hitSet = {} THEN {None} ELSE {Some(e) : e \in best}

\* The Commands that take the marker off the previously selected entity.
RemoveOld == IF IsSome(selected_entity) THEN <<RemoveSelected(Unwrap(selected_entity))>>
             ELSE <<>>

\* systems::input::mouse_interaction, left button just pressed.
PointerDown ==
    /\ Runs("mouse_interaction") /\ input.a = "down"
    /\ IF IsSome(selected_entity) /\ ~IsAlive(Unwrap(selected_entity))
       THEN Panic
       ELSE \E closest \in ClosestEntity(mouse_world_position) :
               /\ IF IsSome(closest)
                  THEN /\ cmds' = cmds \o RemoveOld \o <<InsertSelected(Unwrap(closest))>>
                       /\ selected_entity' = closest
                       /\ dragging' = TRUE
                       /\ drag_offset' =
                              <<ents[Unwrap(closest)].pos[1] - mouse_world_position[1],
                                ents[Unwrap(closest)].pos[2] - mouse_world_position[2]>>
                  ELSE /\ cmds' = cmds \o RemoveOld
                       /\ selected_entity' = None
                       /\ dragging' = FALSE
                       /\ UNCHANGED drag_offset
               /\ UNCHANGED <<ents, nextEntity, gameVars, saved_scene_data,
                              mouse_world_position, camVars, spawnVars, statVars,
                              panicked, histVars>>

\* A release that also drops the selection.
PointerUp_deselecting ==
    /\ Runs("mouse_interaction") /\ input.a = "up"
    /\ dragging' = FALSE
    /\ selected_entity' = None
    /\ UNCHANGED <<worldVars, gameVars, saved_scene_data, drag_offset,
                   mouse_world_position, camVars, spawnVars, statVars, panicked, histVars>>

\* systems::input::mouse_interaction, left button just released.
PointerUp ==
    /\ Runs("mouse_interaction") /\ input.a = "up"
    /\ dragging' = FALSE
    /\ UNCHANGED <<worldVars, gameVars, saved_scene_data, selected_entity, drag_offset,
                   mouse_world_position, camVars, spawnVars, statVars, panicked, histVars>>

\* systems::input::entity_dragging.
entity_dragging ==
    /\ Runs("entity_dragging")
    /\ ents' = IF dragging /\ IsSome(selected_entity) /\ IsAlive(Unwrap(selected_entity))
               THEN [ents EXCEPT ![Unwrap(selected_entity)].pos =
                        <<mouse_world_position[1] + drag_offset[1],
                          mouse_world_position[2] + drag_offset[2]>>]
               ELSE ents
    /\ UNCHANGED <<nextEntity, cmds, gameVars, saved_scene_data, selVars,
                   mouse_world_position, camVars, spawnVars, statVars, panicked, histVars>>

\* ------------------------------------------------------------ camera
\* A camera that keeps its follow reference when the query finds no entity.
FollowAfterMissKept == following_entity

\* The follow reference camera_movement leaves when the query finds no entity.
FollowAfterMiss == None

\* systems::camera::camera_movement, the follow part.
camera_movement ==
    /\ Runs("camera_movement")
    /\ IF IsSome(following_entity)
       THEN IF Unwrap(following_entity) \in Followable
            THEN /\ target_position' = ents[Unwrap(following_entity)].pos
                 /\ UNCHANGED following_entity
                 /\ camera_log' = "tracked"
            ELSE /\ following_entity' = FollowAfterMiss
                 /\ UNCHANGED target_position
                 /\ camera_log' = IF IsAlive(Unwrap(following_entity))
                                  THEN "lost_alive" ELSE "lost_dead"
       ELSE UNCHANGED <<camVars, camera_log>>
    /\ UNCHANGED <<worldVars, gameVars, saved_scene_data, selVars, mouse_world_position,
                   spawnVars, statVars, panicked, origin, harmed, lifecycle>>

\* CameraController.following_entity is a public field of a public resource:
\* the host application points the camera at a live entity between frames.
FollowEntity ==
    /\ phase = "idle"
    /\ ~panicked
    /\ events < MaxEvents
    /\ events' = events + 1
    /\ \E e \in Live : following_entity' = Some(e)
    /\ UNCHANGED <<worldVars, gameVars, saved_scene_data, selVars, cursor,
                   mouse_world_position, target_position, spawnVars, statVars, panicked,
                   phase, input, pending, histVars, editorVars, codecVars, auxVars>>

\* systems::camera::update_mouse_world_position.
update_mouse_world_position ==
    /\ Runs("update_mouse_world_position")
    /\ mouse_world_position' = cursor
    /\ UNCHANGED <<worldVars, gameVars, saved_scene_data, selVars, camVars, spawnVars,
                   statVars, panicked, histVars>>

\* systems::editor::entity_spawn_system.
entity_spawn_system ==
    /\ Runs("entity_spawn_system")
    /\ IF should_spawn
       THEN /\ cmds' = Append(cmds, Spawn(spawn_entity(spawn_entity_type, spawn_position)))
            /\ should_spawn' = FALSE
       ELSE UNCHANGED <<cmds, should_spawn>>
    /\ UNCHANGED <<ents, nextEntity, gameVars, saved_scene_data, selVars,
                   mouse_world_position, camVars, spawn_entity_type, spawn_position,
                   statVars, panicked, histVars>>

\* ------------------------------------------------------------ end of the frame
\* Every system has run: the queued Commands are applied to the World.
EndFrame ==
    /\ phase = "frame"
    /\ ~panicked
    /\ pending = {}
    /\ LET r == ApplyCommands([w |-> ents, next |-> nextEntity, panic |-> FALSE], cmds)
       IN /\ ents' = r.w
          /\ nextEntity' = r.next
          /\ panicked' = r.panic
    /\ cmds' = <<>>
    /\ phase' = "idle"
    /\ input' = NoInput
    /\ lifecycle' = IF lifecycle = "restoring" THEN "stopped" ELSE lifecycle
    /\ UNCHANGED <<gameVars, saved_scene_data, selVars, cursor, mouse_world_position,
                   camVars, spawnVars, statVars, pending, events, origin, harmed,
                   camera_log, editorVars, codecVars, auxVars>>

\* ================================================== the editor binary (main.rs)
\* main.rs is a program of its own: one World, fourteen Update systems
\* without ordering, its own scene document (ids, names, colours, sizes and
\* a next_id).  Modelled: editor_ui (Play/Pause, Save, Load, New Scene, quick
\* Enemy spawn, hierarchy select / focus / delete), mouse_interaction,
\* camera_movement and the shooting systems.  The pointer rests on the
\* player and no arrow or WASD key is offered, so player_movement,
\* camera_controls, entity_dragging and boundary_collision move nothing and
\* are left out together with the colour systems and the shooting counters.
MainEntity(kind, id, position) ==
    [tags |-> {kind}, id |-> id, pos |-> position,
     size |-> IF kind = "Player" THEN <<MainPlayerSize, MainPlayerSize>>
              ELSE <<MainEnemySize, MainEnemySize>>,
     health |-> IF kind = "Player" THEN Some(<<PlayerHealth, PlayerHealth>>)
                ELSE Some(<<EnemyHealth, EnemyHealth>>),
     shooter |-> IF kind = "Player" THEN Some(0) ELSE None,
     lifetime |-> 0, selected |-> FALSE]

\* main::setup: the player, then five enemies at (i * 80 - 160, 150).
setup ==
    [e \in 1 .. 1 + MainEnemies |->
        IF e = 1 THEN MainEntity("Player", Some(FirstId), <<0, 0>>)
        ELSE MainEntity("Enemy", Some(FirstId + e - 1),
                        <<(e - 2) * MainEnemySpacing - MainEnemyLeft, MainEnemyY>>)]

\* main::spawn_entity: the entity takes next_id.
main_spawn_entity(kind, position) == MainEntity(kind, Some(next_id), position)

\* A query that finds nothing to clear.
existing_entities_none == {}

\* Query<Entity, (With<SceneEntity>, Without<Camera>)>.
existing_entities == {e \in DOMAIN main_ents : IsSome(main_ents[e].id)}

\* main::save_scene: one record per entity with a SceneEntity id and a
\* Player or Enemy marker, and the counter.
RECURSIVE MainRecords(_, _)
MainRecords(w, order) ==
    IF order = <<>> THEN <<>>
    ELSE LET c == w[Head(order)]
             rest == MainRecords(w, Tail(order))
         IN IF IsSome(c.id) /\ c.tags \cap {"Player", "Enemy"} # {}
            THEN <<[id |-> Unwrap(c.id),
                    entity_type |-> IF "Player" \in c.tags THEN "Player" ELSE "Enemy",
                    transform |-> c.pos, size |-> c.size]>> \o rest
            ELSE rest
\* A save_scene that writes the counter of Scene::default().
main_save_scene_default_counter(w, counter) ==
    [content |-> "scene", entities |-> MainRecords(w, IterOrder(DOMAIN w)),
     next_id |-> FirstId]

main_save_scene(w, counter) ==
    [content |-> "scene", entities |-> MainRecords(w, IterOrder(DOMAIN w)),
     next_id |-> counter]

\* A file that fs::read_to_string or ron::from_str rejects.
Unreadable(why) == [content |-> why, entities |-> <<>>, next_id |-> 0]

\* main::load_scene, the entity spawned for a record: health and shooter
\* are set from the type.
MainLoaded(d) ==
    [MainEntity(d.entity_type, Some(d.id), d.transform) EXCEPT !.size = d.size]
main_load_spawns(doc) ==
    [i \in 1 .. Len(doc.entities) |-> Spawn(MainLoaded(doc.entities[i]))]

\* The hierarchy rows offered to the pointer: the entities of the column x = 0.
MainListed == {e \in existing_entities : main_ents[e].pos[1] = 0}

MainProjectiles == {e \in DOMAIN main_ents : "Projectile" \in main_ents[e].tags}
MainShooters ==
    {e \in DOMAIN main_ents : "Player" \in main_ents[e].tags /\ IsSome(main_ents[e].shooter)}

\* editor_ui shows the inspector when the selection is an entity of the
\* Selectable query.
InspectorShown ==
    IsSome(main_selected_entity) /\ Unwrap(main_selected_entity) \in existing_entities

\* commands.entity(e).insert(Player) and commands.entity(e).insert(Enemy).
InsertTag(e, tag) == [op |-> "insert_tag", e |-> e, data |-> Some(tag)]

MainSystems ==
    {"editor_ui", "main_mouse_interaction", "main_camera_movement", "main_player_shooting",
     "main_projectile_movement", "main_projectile_cleanup", "main_update_shooting_cooldowns",
     "main_collision_detection"}

\* Whether system s can do anything in a frame with input i.
MainMayAct(s, i) ==
    LET mayPlay == is_playing \/ (i.k = "ui" /\ i.a = "play")
        space == i.k = "key" /\ i.a = "Space"
    IN CASE s = "editor_ui" -> i.k = "ui"
         [] s = "main_mouse_interaction" -> i.k = "mouse"
         [] s = "main_camera_movement" ->
                IsSome(follow_entity) /\ Unwrap(follow_entity) \notin existing_entities
         [] s = "main_player_shooting" -> is_playing /\ space
         [] s = "main_update_shooting_cooldowns" ->
                mayPlay /\ (space \/ \E e \in MainShooters : Unwrap(main_ents[e].shooter) > 0)
         [] OTHER -> mayPlay /\ MainProjectiles # {}

MainInputs ==
    {NoInput, In("key", "Space", 0)}
    \cup {In("mouse", a, 0) : a \in {"down", "up"}}
    \cup {In("ui", a, 0) : a \in {"play", "save", "load", "new_scene", "spawn_enemy"}}
    \cup {In("ui", a, e) : a \in {"select", "focus", "delete"}, e \in MainListed}
    \cup {In("ui", a, 0) : a \in IF InspectorShown THEN {"add_player", "add_enemy"} ELSE {}}

\* The frame starts: its input arrives.
MainBeginFrame ==
    \E i \in MainInputs :
        /\ phase = "idle"
        /\ ~panicked
        /\ phase' = "frame"
        /\ input' = i
        /\ pending' = {s \in MainSystems : MainMayAct(s, i)}
        /\ events' = IF i = NoInput THEN events ELSE events + 1
        /\ events' <= MaxEvents
        /\ scenario' = IF i.k \in {"none", "ui"} THEN scenario ELSE "off"
        /\ UNCHANGED <<main_ents, main_nextEntity, main_cmds, is_playing,
                       main_selected_entity, dragging_entity, follow_entity, next_id,
                       scene_file, deleted>>
        /\ UNCHANGED <<cursor, panicked, engineVars, codecVars, auxVars>>

MainRuns(s) ==
    /\ phase = "frame"
    /\ ~panicked
    /\ s \in pending
    /\ pending' = pending \ {s}
    /\ UNCHANGED <<phase, input, cursor, events, engineVars, codecVars, auxVars>>

\* The step of the "save, New Scene, load" scenario that button a completes.
ScenarioAfter(a) ==
    CASE scenario = "start" /\ a = "save" -> "saved"
      [] scenario = "saved" /\ a = "new_scene" -> "cleared"
      [] scenario = "cleared" /\ a = "load" -> "reloaded"
      [] OTHER -> "off"

EditorButton(a) ==
    /\ MainRuns("editor_ui")
    /\ input.a = a
    /\ scenario' = ScenarioAfter(a)

\* editor_ui, the Play / Pause button.
EditorPlayPause ==
    /\ EditorButton("play")
    /\ is_playing' = ~is_playing
    /\ UNCHANGED <<main_ents, main_nextEntity, main_cmds, main_selected_entity,
                   dragging_entity, follow_entity, next_id, scene_file, deleted, panicked>>

\* editor_ui, Save Scene: save_scene writes the file.
EditorSaveScene ==
    /\ EditorButton("save")
    /\ scene_file' = main_save_scene(main_ents, next_id)
    /\ UNCHANGED <<main_ents, main_nextEntity, main_cmds, is_playing, main_selected_entity,
                   dragging_entity, follow_entity, next_id, deleted, panicked>>

\* editor_ui, Load Scene: load_scene clears the scene and the selection,
\* then reads the file; a failed read or parse returns there.
EditorLoadScene ==
    /\ EditorButton("load")
    /\ main_selected_entity' = None
    /\ IF scene_file.content # "scene"
       THEN /\ main_cmds' = main_cmds \o DespawnAll(IterOrder(existing_entities))
            /\ UNCHANGED next_id
       ELSE /\ main_cmds' = main_cmds \o DespawnAll(IterOrder(existing_entities))
                                     \o main_load_spawns(scene_file)
            /\ next_id' = scene_file.next_id
    /\ UNCHANGED <<main_ents, main_nextEntity, is_playing, dragging_entity, follow_entity,
                   scene_file, deleted, panicked>>

\* editor_ui, New Scene.
EditorNewScene ==
    /\ EditorButton("new_scene")
    /\ main_cmds' = main_cmds \o DespawnAll(IterOrder(existing_entities))
    /\ main_selected_entity' = None
    /\ next_id' = FirstId
    /\ UNCHANGED <<main_ents, main_nextEntity, is_playing, dragging_entity, follow_entity,
                   scene_file, deleted, panicked>>

\* editor_ui, quick spawn of an Enemy at (100, 0).
EditorSpawnEnemy ==
    /\ EditorButton("spawn_enemy")
    /\ main_cmds' = Append(main_cmds, Spawn(main_spawn_entity("Enemy", <<QuickEnemyX, 0>>)))
    /\ next_id' = next_id + 1
    /\ UNCHANGED <<main_ents, main_nextEntity, is_playing, main_selected_entity,
                   dragging_entity, follow_entity, scene_file, deleted, panicked>>

\* editor_ui, a hierarchy row is clicked: Commands::entity(old) panics when
\* the old selection does not exist any more.
EditorSelect ==
    /\ EditorButton("select")
    /\ IF IsSome(main_selected_entity) /\ Unwrap(main_selected_entity) \notin DOMAIN main_ents
       THEN /\ panicked' = TRUE
            /\ UNCHANGED <<main_cmds, main_selected_entity>>
       ELSE /\ main_cmds' = main_cmds
                  \o (IF IsSome(main_selected_entity)
                      THEN <<RemoveSelected(Unwrap(main_selected_entity))>> ELSE <<>>)
                  \o <<InsertSelected(input.e)>>
            /\ main_selected_entity' = Some(input.e)
            /\ UNCHANGED panicked
    /\ UNCHANGED <<main_ents, main_nextEntity, is_playing, dragging_entity, follow_entity,
                   next_id, scene_file, deleted>>

\* editor_ui, the focus button of a hierarchy row.
EditorFocus ==
    /\ EditorButton("focus")
    /\ follow_entity' = Some(input.e)
    /\ UNCHANGED <<main_ents, main_nextEntity, main_cmds, is_playing, main_selected_entity,
                   dragging_entity, next_id, scene_file, deleted, panicked>>

\* main::delete_entity: the selection is cleared when it is the entity.
delete_entity(e) == IF main_selected_entity = Some(e) THEN None ELSE main_selected_entity

\* editor_ui, the delete button of a hierarchy row.
EditorDelete ==
    /\ EditorButton("delete")
    /\ main_selected_entity' = delete_entity(input.e)
    /\ main_cmds' = Append(main_cmds, Despawn(input.e))
    /\ deleted' = deleted \cup {input.e}
    /\ UNCHANGED <<main_ents, main_nextEntity, is_playing, dragging_entity, follow_entity,
                   next_id, scene_file, panicked>>

\* editor_ui, the inspector's "+ Player" and "+ Enemy" buttons: the marker is
\* inserted into the selected entity, no other marker is taken off.
EditorAddComponent ==
    \E a \in {"add_player", "add_enemy"} :
        /\ EditorButton(a)
        /\ main_cmds' = Append(main_cmds,
               InsertTag(Unwrap(main_selected_entity),
                         IF a = "add_player" THEN "Player" ELSE "Enemy"))
        /\ UNCHANGED <<main_ents, main_nextEntity, is_playing, main_selected_entity,
                       dragging_entity, follow_entity, next_id, scene_file, deleted,
                       panicked>>

\* mouse_interaction's test: the point lies in the sprite's rectangle.
MainHit(c, p) ==
    /\ 2 * p[1] >= 2 * c.pos[1] - c.size[1] /\ 2 * p[1] <= 2 * c.pos[1] + c.size[1]
    /\ 2 * p[2] >= 2 * c.pos[2] - c.size[2] /\ 2 * p[2] <= 2 * c.pos[2] + c.size[2]

\* main::mouse_interaction, the button goes down: the old selection is
\* dropped, the first entity under the pointer is selected and dragged.  The
\* order of the query is not determined.
MainPointerDown ==
    /\ MainRuns("main_mouse_interaction")
    /\ input.a = "down"
    /\ IF IsSome(main_selected_entity) /\ Unwrap(main_selected_entity) \notin DOMAIN main_ents
       THEN /\ panicked' = TRUE
            /\ UNCHANGED <<main_cmds, main_selected_entity, dragging_entity>>
       ELSE LET old == IF IsSome(main_selected_entity)
                       THEN <<RemoveSelected(Unwrap(main_selected_entity))>> ELSE <<>>
                under == {e \in DOMAIN main_ents : MainHit(main_ents[e], cursor)}
            IN /\ UNCHANGED panicked
               /\ IF under = {}
                  THEN /\ main_cmds' = main_cmds \o old
                       /\ main_selected_entity' = None
                       /\ dragging_entity' = None
                  ELSE \E e \in under :
                          /\ main_cmds' = main_cmds \o old \o <<InsertSelected(e)>>
                          /\ main_selected_entity' = Some(e)
                          /\ dragging_entity' = Some(e)
    /\ UNCHANGED <<main_ents, main_nextEntity, is_playing, follow_entity, next_id,
                   scene_file, deleted, scenario>>

\* main::mouse_interaction, the button goes up.
MainPointerUp ==
    /\ MainRuns("main_mouse_interaction")
    /\ input.a = "up"
    /\ dragging_entity' = None
    /\ UNCHANGED <<main_ents, main_nextEntity, main_cmds, is_playing, main_selected_entity,
                   follow_entity, next_id, scene_file, deleted, scenario, panicked>>

\* main::camera_movement: the followed entity is read through
\* Query<&Transform, (With<SceneEntity>, Without<Camera2d>)>.
main_camera_movement ==
    /\ MainRuns("main_camera_movement")
    /\ follow_entity' =
           IF IsSome(follow_entity) /\ Unwrap(follow_entity) \notin existing_entities
           THEN None ELSE follow_entity
    /\ UNCHANGED <<main_ents, main_nextEntity, main_cmds, is_playing, main_selected_entity,
                   dragging_entity, next_id, scene_file, deleted, scenario, panicked>>

\* main::player_shooting: the projectile carries no SceneEntity.
MainProjectile(c) ==
    [tags |-> {"Projectile"}, id |-> None,
     pos |-> <<c.pos[1], c.pos[2] + MainProjectileOffset>>,
     size |-> <<MainProjectileW, MainProjectileH>>, health |-> None, shooter |-> None,
     lifetime |-> 0, selected |-> FALSE]

main_player_shooting ==
    /\ MainRuns("main_player_shooting")
    /\ IF is_playing /\ input.k = "key" /\ input.a = "Space"
       THEN LET firing == IterOrder({e \in MainShooters : Unwrap(main_ents[e].shooter) <= 0})
            IN /\ main_cmds' = main_cmds
                      \o [k \in 1 .. Len(firing) |-> Spawn(MainProjectile(main_ents[firing[k]]))]
               /\ main_ents' = [e \in DOMAIN main_ents |->
                      IF e \in MainShooters /\ Unwrap(main_ents[e].shooter) <= 0
                      THEN [main_ents[e] EXCEPT !.shooter = Some(ShootCooldown)]
                      ELSE main_ents[e]]
       ELSE UNCHANGED <<main_cmds, main_ents>>
    /\ UNCHANGED <<main_nextEntity, is_playing, main_selected_entity, dragging_entity,
                   follow_entity, next_id, scene_file, deleted, scenario, panicked>>

\* main::projectile_movement.
main_projectile_movement ==
    /\ MainRuns("main_projectile_movement")
    /\ main_ents' = [e \in DOMAIN main_ents |->
           IF is_playing /\ e \in MainProjectiles
           THEN [main_ents[e] EXCEPT !.pos = <<@[1], @[2] + Step(MainProjectileSpeed)>>,
                                     !.lifetime = @ + FrameDelta]
           ELSE main_ents[e]]
    /\ UNCHANGED <<main_nextEntity, main_cmds, is_playing, main_selected_entity,
                   dragging_entity, follow_entity, next_id, scene_file, deleted, scenario,
                   panicked>>

\* main::projectile_cleanup.
main_projectile_cleanup ==
    /\ MainRuns("main_projectile_cleanup")
    /\ main_cmds' = IF is_playing
                    THEN main_cmds \o DespawnAll(IterOrder(
                             {e \in MainProjectiles : main_ents[e].lifetime >= MaxLifetime}))
                    ELSE main_cmds
    /\ UNCHANGED <<main_ents, main_nextEntity, is_playing, main_selected_entity,
                   dragging_entity, follow_entity, next_id, scene_file, deleted, scenario,
                   panicked>>

\* main::update_shooting_cooldowns.
main_update_shooting_cooldowns ==
    /\ MainRuns("main_update_shooting_cooldowns")
    /\ main_ents' = [e \in DOMAIN main_ents |->
           IF is_playing /\ IsSome(main_ents[e].shooter) /\ Unwrap(main_ents[e].shooter) > 0
           THEN [main_ents[e] EXCEPT !.shooter = Some(Max(Unwrap(@) - FrameDelta, 0))]
           ELSE main_ents[e]]
    /\ UNCHANGED <<main_nextEntity, main_cmds, is_playing, main_selected_entity,
                   dragging_entity, follow_entity, next_id, scene_file, deleted, scenario,
                   panicked>>

\* collision_detection's test: the rectangles of the two colliders overlap.
MainOverlap(a, b) ==
    /\ 2 * a.pos[1] + a.size[1] >= 2 * b.pos[1] - b.size[1]
    /\ 2 * a.pos[1] - a.size[1] <= 2 * b.pos[1] + b.size[1]
    /\ 2 * a.pos[2] + a.size[2] >= 2 * b.pos[2] - b.size[2]
    /\ 2 * a.pos[2] - a.size[2] <= 2 * b.pos[2] + b.size[2]

\* One projectile against the enemies: the first enemy it overlaps loses 25
\* health at once; the despawns are queued.
MainHitBy(st, p) ==
    LET targets == {f \in DOMAIN st.w : "Enemy" \in st.w[f].tags /\ "Projectile" \notin st.w[f].tags
                                        /\ IsSome(st.w[f].health)
                                        /\ MainOverlap(st.w[p], st.w[f])}
    IN IF targets = {} THEN st
       ELSE LET f == Head(IterOrder(targets))
                left == Unwrap(st.w[f].health)[1] - Damage
            IN [w |-> [st.w EXCEPT ![f].health = Some(<<left, Unwrap(@)[2]>>)],
                q |-> st.q \o <<Despawn(p)>> \o (IF left <= 0 THEN <<Despawn(f)>> ELSE <<>>)]

RECURSIVE MainCollisions(_, _)
MainCollisions(st, order) ==
    IF order = <<>> THEN st
    ELSE MainCollisions(MainHitBy(st, Head(order)), Tail(order))

\* main::collision_detection.
main_collision_detection ==
    /\ MainRuns("main_collision_detection")
    /\ IF is_playing
       THEN LET r == MainCollisions([w |-> main_ents, q |-> <<>>], IterOrder(MainProjectiles))
            IN /\ main_ents' = r.w
               /\ main_cmds' = main_cmds \o r.q
       ELSE UNCHANGED <<main_ents, main_cmds>>
    /\ UNCHANGED <<main_nextEntity, is_playing, main_selected_entity, dragging_entity,
                   follow_entity, next_id, scene_file, deleted, scenario, panicked>>

\* Every system has run: the queued Commands are applied.
MainEndFrame ==
    /\ phase = "frame"
    /\ ~panicked
    /\ pending = {}
    /\ LET r == ApplyCommands([w |-> main_ents, next |-> main_nextEntity, panic |-> FALSE],
                              main_cmds)
       IN /\ main_ents' = r.w
          /\ main_nextEntity' = r.next
          /\ panicked' = r.panic
    /\ main_cmds' = <<>>
    /\ phase' = "idle"
    /\ input' = NoInput
    /\ UNCHANGED <<is_playing, main_selected_entity, dragging_entity, follow_entity, next_id,
                   scene_file, deleted, scenario>>
    /\ UNCHANGED <<pending, events, cursor, engineVars, codecVars, auxVars>>

\* The editor after its Startup schedule; `file` is what lies at save_path.
EditorStart(file) ==
    /\ main_ents = setup
    /\ main_nextEntity = 2 + MainEnemies
    /\ main_cmds = <<>>
    /\ is_playing = FALSE
    /\ main_selected_entity = None
    /\ dragging_entity = None
    /\ follow_entity = None
    /\ next_id = FirstId + 1 + MainEnemies
    /\ scene_file = file
    /\ deleted = {}
    /\ scenario = "start"

EditorInit == EditorStart(Unreadable("missing"))

\* ================================================== the codec on drawn inputs
\* scene::save_scene (to a file): the query carries no Projectile, so only
\* Player and Enemy entities are written.
RECURSIVE FileRecords(_, _)
FileRecords(w, order) ==
    IF order = <<>> THEN <<>>
    ELSE LET c == w[Head(order)]
             rest == FileRecords(w, Tail(order))
         IN IF c.role \in {"Player", "Enemy"}
            THEN <<[entity_type |-> c.role,
                    transform |-> SerializableTransformFrom(c),
                    health |-> c.health,
                    collision_radius |-> c.collision,
                    sprite_asset |-> c.sprite_asset]>> \o rest
            ELSE rest
save_scene(w) == FileRecords(w, IterOrder(DOMAIN w))

\* scene::save_scene_to_string: Player, Enemy and Projectile entities.
RECURSIVE StringRecords(_, _)
StringRecords(w, order) ==
    IF order = <<>> THEN <<>>
    ELSE LET c == w[Head(order)]
             rest == StringRecords(w, Tail(order))
         IN IF c.role \in EntityTypes
            THEN <<[entity_type |-> c.role,
                    transform |-> SerializableTransformFrom(c),
                    health |-> c.health,
                    collision_radius |-> c.collision,
                    sprite_asset |-> c.sprite_asset]>> \o rest
            ELSE rest
save_scene_to_string(w) == StringRecords(w, IterOrder(DOMAIN w))

\* The World that the spawns of load_scene_from_string build from nothing.
LoadedWorld(doc) ==
    ApplyCommands([w |-> <<>>, next |-> 1, panic |-> FALSE], load_scene_from_string(doc)).w

\* A presentation binding: SpriteAsset { asset_path, tint_color, scale }.
Binding == [asset_path |-> "sprites/ship.png", tint |-> "red", scale |-> <<2, 3>>]

\* An entity without a role tag: the camera, a grid line, the background image.
Untagged(marker) ==
    [role |-> marker, pos |-> <<0, 0>>, scale |-> <<1, 1>>, health |-> None,
     collision |-> None, shooting |-> None, selected |-> FALSE, sprite_asset |-> None,
     rotation |-> 0]

\* Entities as the program makes them: the start scene, a damaged enemy, a
\* fired projectile, a spawned enemy, and entities loaded from an authored
\* document (rotated, with a presentation binding).
Authored(t, rot) ==
    spawn_entity_from_data(
        [entity_type |-> t,
         transform |-> [x |-> 10, y |-> -20, rotation |-> rot, scale_x |-> 1, scale_y |-> 1],
         health |-> Some(<<30, 80>>),
         collision_radius |-> Some(12),
         sprite_asset |-> Some(Binding)])
SceneEntities ==
    {SetupPlayer, SetupEnemy,
     [SetupEnemy EXCEPT !.health = Some(<<EnemyHealth - Damage, EnemyHealth>>)],
     FiredProjectile(SetupPlayer),
     spawn_entity("Enemy", <<0, OffScreen + 100>>),
     Authored("Player", 90), Authored("Enemy", 270), Authored("Projectile", 180),
     Untagged("Camera"), Untagged("GridLine"), Untagged("BackgroundImage")}

\* The live scenes drawn: up to MaxSceneSize entities.
Scenes ==
    UNION {[1 .. n -> SceneEntities] : n \in 0 .. MaxSceneSize}

\* The records of authored documents: every field present or absent.
AuthoredRecords ==
    {[entity_type |-> t,
      transform |-> [x |-> 10, y |-> -20, rotation |-> 0, scale_x |-> 7, scale_y |-> 9],
      health |-> h, collision_radius |-> c, sprite_asset |-> a] :
        t \in EntityTypes, h \in {None, Some(<<30, 80>>)}, c \in {None, Some(12)},
        a \in {None, Some(Binding)}}

CodecIdle == document = None /\ writer = "none" /\ loaded = None
CodecInit == scene = <<>> /\ CodecIdle

\* scene::save_scene_to_string applied to the scene.
SaveToString ==
    /\ document = None
    /\ document' = Some(save_scene_to_string(scene))
    /\ writer' = "save_scene_to_string"
    /\ UNCHANGED <<scene, loaded, frameVars, engineVars, editorVars, auxVars>>

\* The steps of scene::save_scene that can fail: ron::ser::to_string_pretty,
\* fs::create_dir_all and fs::write.
SaveFaults == {"serialize", "create_dir_all", "write"}

NotCalled == <<>>
OkResult == <<"Ok">>
ErrResult(why) == <<"Err", why>>

\* A `?` that drops the error and goes on.
Try_swallowed(fault) == OkResult

\* The `?` after each step: the error is returned to the caller at once.
Try(fault) == ErrResult(fault)

\* SceneManager::default gives next_id = 0.
SaveInit == save_fault = "none" /\ save_result = NotCalled /\ scene_next_id = 0

\* scene::save_scene applied to the scene: the records are collected from the
\* read-only query, then every step succeeds and the file is written, or one
\* step fails and the function returns.  No document is there to be read
\* after a failure.
SaveToFile ==
    /\ document = None
    /\ save_result = NotCalled
    /\ \E fault \in SaveFaults \cup {"none"} :
          /\ save_fault' = fault
          /\ save_result' = IF fault = "none" THEN OkResult ELSE Try(fault)
          /\ IF fault = "none"
             THEN document' = Some(save_scene(scene)) /\ writer' = "save_scene"
             ELSE UNCHANGED <<document, writer>>
    /\ UNCHANGED <<scene, loaded, frameVars, engineVars, editorVars, cameraVars, assetVars,
                   keyVars, coolVars, scene_next_id>>

\* ui::menus::save_scene_state_for_play applied to the scene.
SnapshotForPlay ==
    /\ document = None
    /\ document' = save_scene_state_for_play(scene)
    /\ writer' = "save_scene_state_for_play"
    /\ UNCHANGED <<scene, loaded, frameVars, engineVars, editorVars, auxVars>>

\* A document of one record written by hand.
AuthorDocument ==
    /\ document = None
    /\ scene = <<>>
    /\ \E d \in AuthoredRecords : document' = Some(<<d>>)
    /\ writer' = "author"
    /\ UNCHANGED <<scene, loaded, frameVars, engineVars, editorVars, auxVars>>

\* scene::load_scene_from_string applied to the document, in an empty World.
LoadFromString ==
    /\ IsSome(document)
    /\ loaded = None
    /\ loaded' = Some(LoadedWorld(Unwrap(document)))
    /\ UNCHANGED <<scene, document, writer, frameVars, engineVars, editorVars, auxVars>>

\* ============================================================ the camera
\* The camera systems of the library with the camera's pose: camera_controls,
\* handle_mouse_wheel_zoom, camera_movement (whole) and
\* update_mouse_world_position, run in any order in every frame.  The scene
\* is the start scene and does not change.

\* f32::lerp with the factor rate * delta_seconds (FrameDelta is in tenths).
Lerp(a, b, rate) == a + ((b - a) * rate * FrameDelta) \div 10

\* The MouseWheel events a frame can bring.
ScrollDeltas == {[unit |-> "Line", y |-> 45], [unit |-> "Line", y |-> -10],
                 [unit |-> "Pixel", y |-> 5]}
ScrollBatches == {<<d>> : d \in ScrollDeltas} \cup {<<d, f>> : d, f \in ScrollDeltas}

\* The zoom delta of one MouseWheel event.
ZoomDelta(ev) == IF ev.unit = "Line" THEN ev.y * LineStep ELSE ev.y * PixelStep

\* A target zoom that is not clamped.
ZoomStep_unclamped(tz, ev) == tz + ZoomDelta(ev)

\* handle_mouse_wheel_zoom, the body of the loop.
ZoomStep(tz, ev) == Clamp(tz + ZoomDelta(ev), ZoomMin, ZoomMax)

\* handle_mouse_wheel_zoom's loop over the events read.
RECURSIVE ZoomAfter(_, _)
ZoomAfter(tz, evs) ==
    IF evs = <<>> THEN tz ELSE ZoomAfter(ZoomStep(tz, Head(evs)), Tail(evs))

CamSystems == {"camera_controls", "handle_mouse_wheel_zoom", "camera_movement",
               "update_mouse_world_position"}

\* Whether system s can do anything in a frame of the camera with button
\* edge a, cursor position c and wheel events w; a system for which this is
\* false is a no-op wherever it runs in the frame.
CamMayAct(s, a, c, w) ==
    CASE s = "camera_controls" -> a # "" \/ right_pressed
      [] s = "handle_mouse_wheel_zoom" -> w # <<>>
      [] s = "update_mouse_world_position" -> c # mouse_world_position
      [] OTHER -> TRUE

\* A frame of the camera: one button edge of the right mouse button, a move
\* of the pointer, a batch of wheel events, or nothing.
CamStartFrame(a, c, w) ==
    /\ phase = "idle"
    /\ ticks < MaxTicks
    /\ ticks' = ticks + 1
    /\ phase' = "frame"
    /\ input' = IF a = "" THEN NoInput ELSE In("mouse", a, 0)
    /\ right_pressed' = CASE a = "right_down" -> TRUE
                          [] a = "right_up" -> FALSE
                          [] OTHER -> right_pressed
    /\ cursor' = c
    /\ scroll_events' = w
    /\ events' = events + (IF a # "" THEN 1 ELSE 0) + (IF c # cursor THEN 1 ELSE 0) + Len(w)
    /\ events' <= MaxEvents
    /\ pending' = {s \in CamSystems : CamMayAct(s, a, c, w)}
    /\ UNCHANGED <<panicked, engineVars, editorVars, codecVars, notCamera, camera_translation,
                   instant_movement, zoom, target_zoom, last_mouse_pos>>

\* A system of the camera runs in the frame.
CamRuns(s) ==
    /\ phase = "frame"
    /\ ~panicked
    /\ s \in pending
    /\ pending' = pending \ {s}
    /\ UNCHANGED <<phase, input, cursor, events, editorVars, codecVars, notCamera>>

CamBeginFrame ==
    \/ CamStartFrame("", cursor, <<>>)
    \/ ~right_pressed /\ CamStartFrame("right_down", cursor, <<>>)
    \/ right_pressed /\ CamStartFrame("right_up", cursor, <<>>)
    \/ \E c \in CursorPoints \ {cursor} : CamStartFrame("", c, <<>>)
    \/ \E w \in ScrollBatches : CamStartFrame("", cursor, w)

\* systems::input::camera_controls.
camera_controls ==
    /\ CamRuns("camera_controls")
    /\ LET started == IF input.a = "right_down" THEN Some(mouse_world_position)
                      ELSE last_mouse_pos
           moves == right_pressed /\ IsSome(started)
           last_pos == Unwrap(started)
       IN /\ IF moves
             THEN /\ target_position' =
                         <<target_position[1] + last_pos[1] - mouse_world_position[1],
                           target_position[2] + last_pos[2] - mouse_world_position[2]>>
                  /\ instant_movement' = TRUE
                  /\ following_entity' = None
             ELSE UNCHANGED <<target_position, instant_movement, following_entity>>
          /\ last_mouse_pos' = CASE input.a = "right_up" -> None
                                 [] moves -> Some(mouse_world_position)
                                 [] OTHER -> started
    /\ UNCHANGED <<worldVars, gameVars, saved_scene_data, selVars, mouse_world_position,
                   spawnVars, statVars, panicked, histVars, camera_translation, zoom,
                   target_zoom, right_pressed, scroll_events, ticks>>

\* systems::input::handle_mouse_wheel_zoom.
handle_mouse_wheel_zoom ==
    /\ CamRuns("handle_mouse_wheel_zoom")
    /\ target_zoom' = ZoomAfter(target_zoom, scroll_events)
    /\ scroll_events' = <<>>
    /\ UNCHANGED <<engineVars, panicked, camera_translation, instant_movement, zoom,
                   last_mouse_pos, right_pressed, ticks>>

\* A flag that stays set after the camera has used it.
FlagAfterUseKept == instant_movement

\* instant_movement after camera_movement has run.
FlagAfterUse == FALSE

\* systems::camera::camera_movement, whole: follow, position, zoom.
CameraMovement ==
    /\ CamRuns("camera_movement")
    /\ LET tracked == IsSome(following_entity) /\ Unwrap(following_entity) \in Followable
           target == IF tracked THEN ents[Unwrap(following_entity)].pos
                     ELSE target_position
       IN /\ target_position' = target
          /\ following_entity' = IF IsSome(following_entity) /\ ~tracked
                                  THEN FollowAfterMiss ELSE following_entity
          /\ camera_log' = CASE tracked -> "tracked"
                              [] IsSome(following_entity) ->
                                     IF IsAlive(Unwrap(following_entity))
                                     THEN "lost_alive" ELSE "lost_dead"
                              [] OTHER -> camera_log
          /\ camera_translation' =
                 IF instant_movement THEN target
                 ELSE <<Lerp(camera_translation[1], target[1], MoveRate),
                        Lerp(camera_translation[2], target[2], MoveRate)>>
          /\ instant_movement' = IF instant_movement THEN FlagAfterUse ELSE FALSE
    /\ zoom' = Lerp(zoom, target_zoom, ZoomRate)
    /\ UNCHANGED <<worldVars, gameVars, saved_scene_data, selVars, mouse_world_position,
                   spawnVars, statVars, panicked, origin, harmed, lifecycle, target_zoom,
                   last_mouse_pos, right_pressed, scroll_events, ticks>>

\* update_mouse_world_position, in a frame of the camera.
CamPointer ==
    /\ update_mouse_world_position
    /\ UNCHANGED cameraVars

\* The host application points the camera at a live entity between frames.
CamFollow ==
    /\ FollowEntity
    /\ UNCHANGED cameraVars

CamEndFrame ==
    /\ phase = "frame"
    /\ pending = {}
    /\ phase' = "idle"
    /\ input' = NoInput
    /\ UNCHANGED <<pending, events, cursor, panicked, engineVars, editorVars, codecVars, notCamera,
                   cameraVars>>

CameraInit ==
    /\ camera_translation = <<0, 0>>
    /\ instant_movement = FALSE
    /\ zoom = ZoomStart /\ target_zoom = ZoomStart
    /\ last_mouse_pos = None
    /\ right_pressed = FALSE
    /\ scroll_events = <<>>
    /\ ticks = 0

\* ============================================================ the assets
\* The asset importer of the library: assets::import_asset, the import dialog
\* of the asset browser and handle_asset_imports.  A path is its file stem
\* and what Path::extension gives for it.
Path(stem, extension) == [stem |-> stem, extension |-> extension]
EmptyPath == Path("", None)
Paths ==
    {Path("sprites/ship", Some("png")), Path("photo", Some("jpeg")),
     Path("anim", Some("gif")), Path("notes", Some("txt")), Path("README", None)}

\* Path::new(full_path).exists() for the paths offered.
FilesOnDisk == {Path("sprites/ship", Some("png")), Path("notes", Some("txt"))}

Contains(q, x) == \E i \in 1 .. Len(q) : q[i] = x

\* AssetImporter::queue_import.
queue_import(q, pend, path) ==
    IF ~Contains(q, path) /\ ~Contains(pend, path) THEN Append(q, path) ELSE q

\* assets::import_asset: the result and the queue it leaves.
import_asset(path, q, pend) ==
    IF IsSome(path.extension)
    THEN IF Unwrap(path.extension) \in SupportedExtensions
         THEN [result |-> OkResult, queue |-> queue_import(q, pend, path)]
         ELSE [result |-> ErrResult("Unsupported file format"), queue |-> q]
    ELSE [result |-> ErrResult("File has no extension"), queue |-> q]

AssetRuns ==
    /\ phase = "idle"
    /\ UNCHANGED <<frameVars, engineVars, editorVars, codecVars, cameraVars, saveVars,
                   keyVars, coolVars>>

\* import_asset is called with a path.
ImportAsset ==
    \E path \in Paths :
        LET r == import_asset(path, import_queue, pending_imports)
        IN /\ AssetRuns
           /\ imports < MaxImports
           /\ imports' = imports + 1
           /\ import_result' = r.result
           /\ import_queue' = r.queue
           /\ UNCHANGED <<pending_imports, failed_imports, loading_assets, loaded_images,
                          show_import_dialog, import_path>>

\* render_asset_browser_content, the "Import Asset" button.
DialogOpen ==
    /\ AssetRuns
    /\ ~show_import_dialog
    /\ show_import_dialog' = TRUE
    /\ UNCHANGED <<import_queue, pending_imports, failed_imports, loading_assets, loaded_images,
                   import_path, import_result, imports>>

\* import_dialog_ui, the path field is edited or "Browse" picks a file.
DialogEdit ==
    \E path \in Paths \cup {EmptyPath} :
        /\ AssetRuns
        /\ show_import_dialog
        /\ path # import_path
        /\ import_path' = path
        /\ UNCHANGED <<import_queue, pending_imports, failed_imports, loading_assets, loaded_images,
                       show_import_dialog, import_result, imports>>

\* import_dialog_ui, the "Import" button: a path that is not empty is queued.
DialogImport ==
    /\ AssetRuns
    /\ show_import_dialog
    /\ import_path # EmptyPath
    /\ imports < MaxImports
    /\ imports' = imports + 1
    /\ import_queue' = queue_import(import_queue, pending_imports, import_path)
    /\ import_path' = EmptyPath
    /\ show_import_dialog' = FALSE
    /\ UNCHANGED <<pending_imports, failed_imports, loading_assets, loaded_images,
                   import_result>>

\* import_dialog_ui, the "Cancel" button.
DialogCancel ==
    /\ AssetRuns
    /\ show_import_dialog
    /\ show_import_dialog' = FALSE
    /\ import_path' = EmptyPath
    /\ UNCHANGED <<import_queue, pending_imports, failed_imports, loading_assets, loaded_images,
                   import_result, imports>>

\* AssetImporter::start_import, called after the queue has been drained.
start_import(q, pend, path) ==
    IF Contains(q, path) THEN Append(pend, path) ELSE pend

\* handle_asset_imports, the drained queue: try_load_asset starts loading a
\* file that exists and fails for one that does not.
RECURSIVE Drained(_, _)
Drained(st, to_import) ==
    IF to_import = <<>> THEN st
    ELSE LET path == Head(to_import)
         IN Drained(
              IF path \in FilesOnDisk
              THEN [st EXCEPT !.loading = @ \cup {path},
                              !.pend = start_import(<<>>, @, path)]
              ELSE [st EXCEPT !.failed = Append(@, <<path, "File not found">>)],
              Tail(to_import))

\* The (path, error) pairs that fail_import pushes for the pending paths at
\* the places `failed`, in the order of pending_imports.
RECURSIVE LoadFailures(_, _, _)
LoadFailures(pend, failed, i) ==
    IF i > Len(pend) THEN <<>>
    ELSE (IF i \in failed THEN <<<<pend[i], "Failed to load asset">>>> ELSE <<>>)
         \o LoadFailures(pend, failed, i + 1)

\* handle_asset_imports: the queue is drained; then every pending import
\* found in loading_assets is looked up in the asset server: a Loaded one is
\* registered, a Failed one goes to failed_imports, both leave
\* loading_assets and pending_imports; the others keep loading.
handle_asset_imports ==
    LET st == Drained([loading |-> loading_assets, pend |-> pending_imports,
                       failed |-> failed_imports], import_queue)
        waiting == {i \in 1 .. Len(st.pend) : st.pend[i] \in st.loading}
    IN /\ AssetRuns
       /\ import_queue # <<>> \/ pending_imports # <<>>
       /\ import_queue' = <<>>
       /\ \E done \in SUBSET waiting :
             \E failed \in SUBSET (waiting \ done) :
               LET ended == {st.pend[i] : i \in done \cup failed}
               IN /\ loaded_images' = loaded_images \cup {st.pend[i] : i \in done}
                  /\ loading_assets' = st.loading \ ended
                  /\ pending_imports' = SelectSeq(st.pend, LAMBDA x : x \notin ended)
                  /\ failed_imports' = st.failed \o LoadFailures(st.pend, failed, 1)
       /\ UNCHANGED <<show_import_dialog, import_path, import_result, imports>>

AssetInit ==
    /\ import_queue = <<>>
    /\ pending_imports = <<>>
    /\ failed_imports = <<>>
    /\ loading_assets = {}
    /\ loaded_images = {}
    /\ show_import_dialog = FALSE
    /\ import_path = EmptyPath
    /\ import_result = NotCalled
    /\ imports = 0

\* ====================================================== the keyboard shortcuts
\* The P and F1 keys with GameState.debug_mode: game_controls_system and
\* debug_info_system (both whole), and the Play/Pause, Stop and Toggle Debug
\* buttons of the game-controls panel.  One input per frame; the two systems
\* run in either order.
KeyInputs ==
    {In("key", k, 0) : k \in {"P", "F1"}}
    \cup {In("ui", a, 0) : a \in {"panel_play", "panel_stop", "panel_debug"}}

KeySystems(i) ==
    IF i.k = "key" THEN {"game_controls_system", "debug_info_system"} ELSE {"ui"}

KeysBeginFrame ==
    \E i \in KeyInputs :
        /\ phase = "idle"
        /\ events < MaxEvents
        /\ events' = events + 1
        /\ phase' = "frame"
        /\ input' = i
        /\ pending' = KeySystems(i)
        /\ tick_start' = [paused |-> paused, debug_mode |-> debug_mode]
        /\ UNCHANGED <<cursor, panicked, engineVars, editorVars, codecVars, cameraVars,
                       saveVars, assetVars, debug_mode, coolVars>>

KeyRuns(s) ==
    /\ phase = "frame"
    /\ s \in pending
    /\ pending' = pending \ {s}
    /\ UNCHANGED <<phase, input, events, cursor, panicked, worldVars, saved_scene_data,
                   selVars, mouse_world_position, camVars, spawnVars, statVars, histVars,
                   editorVars, codecVars, cameraVars, saveVars, assetVars, tick_start,
                   coolVars>>

\* systems::game_controls::game_controls_system: P and F1.
GameControlsKeys ==
    /\ KeyRuns("game_controls_system")
    /\ paused' = IF input.a = "P" THEN toggle_pause ELSE paused
    /\ debug_mode' = IF input.a = "F1" THEN ~debug_mode ELSE debug_mode
    /\ UNCHANGED <<playing, editor_mode>>

\* systems::editor::debug_info_system: F1 and P.
DebugInfoKeys ==
    /\ KeyRuns("debug_info_system")
    /\ debug_mode' = IF input.a = "F1" THEN ~debug_mode ELSE debug_mode
    /\ paused' = IF input.a = "P" THEN ~paused ELSE paused
    /\ UNCHANGED <<playing, editor_mode>>

\* ui::editor::render_game_controls_content: Play/Pause, Stop, Toggle Debug.
GameControlsPanel ==
    /\ KeyRuns("ui")
    /\ CASE input.a = "panel_play" ->
               IF playing
               THEN paused' = ~paused /\ UNCHANGED <<playing, editor_mode, debug_mode>>
               ELSE /\ playing' = TRUE /\ editor_mode' = FALSE /\ paused' = FALSE
                    /\ UNCHANGED debug_mode
         [] input.a = "panel_stop" ->
               /\ playing' = FALSE /\ editor_mode' = TRUE /\ paused' = FALSE
               /\ UNCHANGED debug_mode
         [] OTHER ->
               debug_mode' = ~debug_mode /\ UNCHANGED <<playing, paused, editor_mode>>

KeysEndFrame ==
    /\ phase = "frame"
    /\ pending = {}
    /\ phase' = "idle"
    /\ input' = NoInput
    /\ UNCHANGED <<pending, events, cursor, panicked, engineVars, editorVars, codecVars,
                   auxVars>>

KeysInit ==
    /\ debug_mode = FALSE
    /\ tick_start = [paused |-> FALSE, debug_mode |-> FALSE]

\* ====================================================== the shooting cooldown
\* The player's Shooting.cooldown under frames of different lengths:
\* player_shooting and update_shooting_cooldowns (both whole, for the one
\* player of the start scene), run in either order, and the Play/Pause
\* button of the game-controls panel.
Deltas == 1 .. MaxDelta

CoolInputs == {NoInput, In("key", "Space", 0), In("ui", "panel_play", 0)}

CoolSystems(i) ==
    (IF i.k = "ui" THEN {"ui"} ELSE {})
    \cup (IF playing \/ i.k = "ui"
          THEN {"player_shooting", "update_shooting_cooldowns"} ELSE {})

otherThanGame ==
    <<worldVars, saved_scene_data, selVars, mouse_world_position, camVars, spawnVars,
      hits, histVars>>

CoolBeginFrame ==
    \E i \in CoolInputs, d \in Deltas :
        /\ phase = "idle"
        /\ CoolSystems(i) # {}
        /\ i.k = "key" => shots_fired < MaxShots
        /\ phase' = "frame"
        /\ input' = i
        /\ pending' = CoolSystems(i)
        /\ tick_delta' = d
        /\ UNCHANGED <<events, cursor, panicked, engineVars, editorVars, codecVars,
                       cameraVars, saveVars, assetVars, keyVars, cooldown, since_shot,
                       spawned>>

CoolRuns(s) ==
    /\ phase = "frame"
    /\ s \in pending
    /\ pending' = pending \ {s}
    /\ UNCHANGED <<phase, input, events, cursor, panicked, otherThanGame, editorVars,
                   codecVars, cameraVars, saveVars, assetVars, keyVars, tick_delta>>

\* `if shooting.cooldown > 0.0 { shooting.cooldown -= time.delta_seconds(); }`
CooledBy(cd, d) == IF cd > 0 THEN cd - d ELSE cd

\* player_shooting's own countdown of the cooldown.
OwnCountdown(cd, d) == CooledBy(cd, d)

\* systems::gameplay::player_shooting for the player.
PlayerShooting ==
    /\ CoolRuns("player_shooting")
    /\ IF Enabled
       THEN LET cd == OwnCountdown(cooldown, tick_delta)
                fires == input.k = "key" /\ cd <= 0
            IN /\ cooldown' = IF fires THEN ShootCooldown ELSE cd
               /\ spawned' = IF fires THEN spawned + 1 ELSE spawned
               /\ shots_fired' = IF fires THEN shots_fired + 1 ELSE shots_fired
               /\ since_shot' = IF fires THEN 0
                                ELSE Min(since_shot + tick_delta, ShootCooldown)
       ELSE UNCHANGED <<cooldown, spawned, shots_fired, since_shot>>
    /\ UNCHANGED gameVars

\* systems::gameplay::update_shooting_cooldowns for the player.
UpdateShootingCooldowns ==
    /\ CoolRuns("update_shooting_cooldowns")
    /\ cooldown' = IF Enabled THEN CooledBy(cooldown, tick_delta) ELSE cooldown
    /\ UNCHANGED <<gameVars, shots_fired, since_shot, spawned>>

\* ui::editor::render_game_controls_content, the Play/Pause button.
CoolPlayPause ==
    /\ CoolRuns("ui")
    /\ IF playing
       THEN paused' = ~paused /\ UNCHANGED <<playing, editor_mode>>
       ELSE playing' = TRUE /\ editor_mode' = FALSE /\ paused' = FALSE
    /\ UNCHANGED <<shots_fired, cooldown, since_shot, spawned>>

CoolEndFrame ==
    /\ phase = "frame"
    /\ pending = {}
    /\ phase' = "idle"
    /\ input' = NoInput
    /\ UNCHANGED <<pending, events, cursor, panicked, engineVars, editorVars, codecVars,
                   auxVars>>

\* spawn_entity gives the player Shooting { cooldown: 0.0 }.
CooldownInit ==
    /\ tick_delta = 1
    /\ cooldown = 0
    /\ since_shot = 0
    /\ spawned = 0

\* ------------------------------------------------------------ the program
\* The state after the Startup schedule (setup_engine) with every resource
\* at its Default.
EngineInit ==
    /\ ents = setup_engine
    /\ nextEntity = 3
    /\ cmds = <<>>
    /\ playing = FALSE /\ paused = FALSE /\ editor_mode = FALSE
    /\ saved_scene_data = None
    /\ selected_entity = None
    /\ dragging = FALSE /\ drag_offset = <<0, 0>>
    /\ cursor = <<0, 0>>
    /\ mouse_world_position = <<0, 0>>
    /\ following_entity = None /\ target_position = <<0, 0>>
    /\ should_spawn = FALSE /\ spawn_entity_type = "Player" /\ spawn_position = <<0, 0>>
    /\ shots_fired = 0 /\ hits = 0
    /\ panicked = FALSE
    /\ phase = "idle"
    /\ input = NoInput
    /\ pending = {}
    /\ events = 0
    /\ origin = Described(setup_engine)
    /\ harmed = {}
    /\ camera_log = "none"
    /\ lifecycle = "edit"

Init == EngineInit /\ EditorInit /\ CodecInit /\ CameraInit /\ SaveInit /\ AssetInit /\ KeysInit
        /\ CooldownInit

Next ==
    \/ BeginFrame
    \/ CursorMoved
    \/ FollowEntity
    \/ MenuPlayPause
    \/ MenuStop
    \/ PanelPlayPause
    \/ PanelStop
    \/ HierarchySelect
    \/ HierarchyDelete
    \/ SpawnerPickType
    \/ SpawnAtMouse
    \/ game_controls_system
    \/ debug_info_system
    \/ handle_play_mode_transition
    \/ player_movement
    \/ player_shooting
    \/ projectile_movement
    \/ projectile_cleanup
    \/ update_shooting_cooldowns
    \/ collision_detection
    \/ boundary_collision
    \/ PointerDown
    \/ PointerUp
    \/ entity_dragging
    \/ camera_movement
    \/ update_mouse_world_position
    \/ entity_spawn_system
    \/ EndFrame

Spec == Init /\ [][Next]_vars

\* ---- play: the game is started from the panel and Space is pressed; the
\* app runs its schedule frame after frame (a frame that can begin begins,
\* a scheduled system runs, a frame that can end ends).
GameplayInputs == {NoInput, In("key", "Space", 0), In("ui", "panel_play", 0)}

GameplayBeginFrame == \E i \in GameplayInputs : StartFrame(i, cursor)

GameplayNext ==
    \/ GameplayBeginFrame
    \/ PanelPlayPause
    \/ player_shooting
    \/ projectile_movement
    \/ projectile_cleanup
    \/ update_shooting_cooldowns
    \/ collision_detection
    \/ boundary_collision
    \/ EndFrame

GameplaySpec == Init /\ [][GameplayNext]_vars /\ WF_vars(GameplayNext)

\* ---- the editor binary: the file at save_path is absent or unparsable at start.
EditorSpecInit ==
    /\ EngineInit
    /\ \E why \in {"missing", "garbled"} : EditorStart(Unreadable(why))
    /\ CodecInit
    /\ CameraInit
    /\ SaveInit
    /\ AssetInit
    /\ KeysInit
    /\ CooldownInit

EditorNext ==
    \/ MainBeginFrame
    \/ EditorPlayPause
    \/ EditorSaveScene
    \/ EditorLoadScene
    \/ EditorNewScene
    \/ EditorSpawnEnemy
    \/ EditorSelect
    \/ EditorFocus
    \/ EditorDelete
    \/ EditorAddComponent
    \/ MainPointerDown
    \/ MainPointerUp
    \/ main_camera_movement
    \/ main_player_shooting
    \/ main_projectile_movement
    \/ main_projectile_cleanup
    \/ main_update_shooting_cooldowns
    \/ main_collision_detection
    \/ MainEndFrame

EditorSpec == EditorSpecInit /\ [][EditorNext]_vars

\* ---- the codec: a scene is drawn, written and loaded.
CodecSpecInit ==
    /\ EngineInit
    /\ EditorInit
    /\ scene \in Scenes
    /\ CodecIdle
    /\ CameraInit
    /\ SaveInit
    /\ AssetInit
    /\ KeysInit
    /\ CooldownInit

CodecNext ==
    \/ SaveToString
    \/ SaveToFile
    \/ SnapshotForPlay
    \/ AuthorDocument
    \/ LoadFromString

CodecSpec == CodecSpecInit /\ [][CodecNext]_vars

\* ---- the assets: import requests, the import dialog and the importer.
AssetNext ==
    \/ ImportAsset
    \/ DialogOpen
    \/ DialogEdit
    \/ DialogImport
    \/ DialogCancel
    \/ handle_asset_imports

AssetSpec == Init /\ [][AssetNext]_vars

\* ---- the keyboard shortcuts and the game-controls panel.
KeysNext ==
    \/ KeysBeginFrame
    \/ GameControlsKeys
    \/ DebugInfoKeys
    \/ GameControlsPanel
    \/ KeysEndFrame

KeysSpec == Init /\ [][KeysNext]_vars

\* ---- the shooting cooldown under frames of different lengths.
CooldownNext ==
    \/ CoolBeginFrame
    \/ PlayerShooting
    \/ UpdateShootingCooldowns
    \/ CoolPlayPause
    \/ CoolEndFrame

CooldownSpec == Init /\ [][CooldownNext]_vars

\* ---- the camera: pointer, right button and wheel over the start scene.
CameraNext ==
    \/ CamBeginFrame
    \/ CamFollow
    \/ camera_controls
    \/ handle_mouse_wheel_zoom
    \/ CameraMovement
    \/ CamPointer
    \/ CamEndFrame

CameraSpec == Init /\ [][CameraNext]_vars

\* ------------------------------------------------------------ the claims
\* System s ran in this step.
Ran(s) == s \in pending /\ s \notin pending'

StopButtons == {"menu_stop", "panel_stop"}
GameplaySystems ==
    {"player_movement", "player_shooting", "projectile_movement", "projectile_cleanup",
     "update_shooting_cooldowns", "collision_detection", "boundary_collision"}

\* C1: once a Stop that followed a Play has been processed (the frame in which
\* handle_play_mode_transition saw the stopped state has ended), the
\* role-bearing entities are exactly those of the moment Play was pressed:
\* same count, roles, positions, health pairs, collision values and
\* presentation bindings.
PlayStopRestoresEntities ==
    lifecycle = "stopped" => EntityBag(ents) = BagOf(origin)

\* C2: an entity that carried a health pair when Play was pressed and was
\* damaged or despawned during play exists again, once the Stop has been
\* processed, at its pre-Play position with its pre-Play health pair.
HarmedEntityRestored ==
    lifecycle = "stopped" =>
        \A e \in harmed :
            IsSome(origin[e].health) =>
                \E f \in Live : /\ ents[f].role = origin[e].role
                                /\ ents[f].pos = origin[e].pos
                                /\ ents[f].health = origin[e].health

\* C3: a Stop click, and the play-mode transition that processes it, while no
\* snapshot is held neither spawn, despawn nor modify an entity, and do not fault.
StopWithoutSnapshotIsNoOp ==
    [][(/\ saved_scene_data = None
        /\ \/ Ran("ui") /\ input.a \in StopButtons
           \/ Ran("handle_play_mode_transition"))
       => UNCHANGED <<ents, nextEntity, cmds, panicked>>]_vars

\* C3 witness: a frame with a Stop click has run all its systems, the
\* transition among them, with no snapshot held; nothing is queued.
StopWithoutSnapshotDone ==
    /\ phase = "frame" /\ pending = {}
    /\ input.a \in StopButtons
    /\ saved_scene_data = None /\ lifecycle = "restoring"
    /\ ~playing /\ editor_mode
    /\ cmds = <<>> /\ ~panicked

\* C4: while the game is playing (from the step after Play to the step before
\* Stop) no step changes the retained snapshot: not a pause toggle by the P
\* key or the Play/Pause button, not a Play/Pause click while playing.
SnapshotStableWhilePlaying ==
    [][(playing /\ playing') => saved_scene_data' = saved_scene_data]_vars

\* C4 witness: the Play/Pause button was clicked while playing (the game is
\* now paused), the world has changed since Play, and the snapshot is held.
PausedByButtonWithSnapshot ==
    /\ phase = "frame" /\ input.a = "menu_play" /\ "ui" \notin pending
    /\ playing /\ paused
    /\ IsSome(saved_scene_data)
    /\ saved_scene_data # save_scene_state_for_play(ents)

\* C5: a gameplay system that runs while the simulation is not enabled
\* (not playing, or paused) changes nothing: no entity is spawned or
\* despawned, and no position, health, cooldown or statistics counter changes.
DisabledGameplayIsNoOp ==
    [][(~Enabled /\ \E s \in GameplaySystems : Ran(s))
       => UNCHANGED <<ents, nextEntity, cmds, shots_fired, hits>>]_vars

\* C6: at most one entity carries the Selected marker.
AtMostOneSelected ==
    Cardinality({e \in Live : ents[e].selected}) <= 1

\* C7: a reference of SelectedEntity to a despawned entity does not survive a
\* whole tick: a frame that began with the entity already gone ends with
\* SelectedEntity no longer referencing it.
StaleSelectionCleared ==
    [][(/\ phase = "frame" /\ phase' = "idle"
        /\ IsSome(selected_entity) /\ ~IsAlive(Unwrap(selected_entity)))
       => selected_entity' # selected_entity]_vars

\* C8: when camera_movement runs while the followed entity is despawned, it
\* clears following_entity and leaves target_position as it was.
DeadFollowCleared ==
    [][(/\ Ran("camera_movement")
        /\ IsSome(following_entity) /\ ~IsAlive(Unwrap(following_entity)))
       => (following_entity' = None /\ target_position' = target_position)]_vars

\* C8 witness: camera_movement has run with a despawned followed entity.
DeadFollowWasCleared ==
    camera_log = "lost_dead" /\ following_entity = None

\* C9: when camera_movement runs while the followed entity is alive, whatever
\* its role, target_position becomes that entity's position and the follow
\* reference is kept.
AliveFollowTracked ==
    [][(/\ Ran("camera_movement")
        /\ IsSome(following_entity) /\ IsAlive(Unwrap(following_entity)))
       => (/\ target_position' = ents[Unwrap(following_entity)].pos
           /\ following_entity' = following_entity)]_vars

\* C10: no operation faults on a dead entity reference: the program never
\* reaches the panicked state.
NoFaultOnDeadReference == ~panicked

\* C11: once a frame with a delete has ended, neither the selection nor the
\* camera's follow target references an entity that was handed to
\* delete_entity.
DeleteClearsReferences ==
    phase = "idle" =>
        \A e \in deleted : main_selected_entity # Some(e) /\ follow_entity # Some(e)

\* C12: New Scene queues the despawn of every Player, Enemy and Projectile
\* entity that exists when it is clicked.
NewSceneRemovesEveryRole ==
    [][(Ran("editor_ui") /\ input.a = "new_scene") =>
          \A e \in DOMAIN main_ents :
              \E k \in 1 .. Len(main_cmds') : main_cmds'[k] = Despawn(e)]_vars

\* C13: when New Scene has run, next_id has its initial value, nothing is
\* selected and no entity is being dragged.
NewSceneResetsEditorState ==
    [][(Ran("editor_ui") /\ input.a = "new_scene") =>
          (next_id' = FirstId /\ main_selected_entity' = None /\ dragging_entity' = None)]_vars

\* C14: a Load Scene whose file cannot be read or parsed changes nothing: no
\* despawn or spawn is queued, the selection and next_id stay as they were.
FailedLoadChangesNothing ==
    [][(Ran("editor_ui") /\ input.a = "load" /\ scene_file.content # "scene") =>
          UNCHANGED <<main_ents, main_cmds, main_selected_entity, next_id>>]_vars

\* C15: a Load Scene that reads a document queues the despawn of every entity
\* that exists when it is clicked, so that only the entities of the document
\* remain.
LoadReplacesScene ==
    [][(Ran("editor_ui") /\ input.a = "load" /\ scene_file.content = "scene") =>
          \A e \in DOMAIN main_ents :
              \E k \in 1 .. Len(main_cmds') : main_cmds'[k] = Despawn(e)]_vars

\* What the scenario compares of an entity of the editor: role, position, health.
MainDescribed(w) ==
    [e \in DOMAIN w |-> [kind |-> w[e].tags, pos |-> w[e].pos, health |-> w[e].health]]

ScenarioDone == scenario = "reloaded" /\ phase = "idle"

\* C16 (as stated): from the start scene, Save Scene, New Scene, Load Scene
\* yields the six entities of the start scene at their positions with health
\* 100/100 and 50/50, and next_id = 6.
ScenarioRestoresCounterSix ==
    ScenarioDone =>
        /\ Cardinality(DOMAIN main_ents) = 1 + MainEnemies
        /\ BagOf(MainDescribed(main_ents)) = BagOf(MainDescribed(setup))
        /\ next_id = 1 + MainEnemies

\* C16 (amended): the same scenario yields the six entities of the start
\* scene at their positions with health 100/100 and 50/50, and next_id has the
\* value it had at Save Scene, 7: the ids 1 .. 6 are taken.
ScenarioRestoresScene ==
    ScenarioDone =>
        /\ Cardinality(DOMAIN main_ents) = 1 + MainEnemies
        /\ BagOf(MainDescribed(main_ents)) = BagOf(MainDescribed(setup))
        /\ {Unwrap(main_ents[e].id) : e \in DOMAIN main_ents} = FirstId .. FirstId + MainEnemies
        /\ next_id = FirstId + 1 + MainEnemies

\* C16 witness: the scenario has been played to its end.
ScenarioPlayed ==
    ScenarioDone /\ scene_file.content = "scene" /\ Len(scene_file.entities) = 1 + MainEnemies

\* What the round trip compares of an entity: role, position, rotation, scale,
\* health pair, collision value and presentation binding.
FullDescribed(w) ==
    [e \in RoleBearing(w) |->
        [role |-> w[e].role, pos |-> w[e].pos, rotation |-> w[e].rotation,
         scale |-> w[e].scale, health |-> w[e].health, collision |-> w[e].collision,
         sprite_asset |-> w[e].sprite_asset]]

DocumentWriters == {"save_scene", "save_scene_to_string", "save_scene_state_for_play"}

\* C18: whichever writer builds the document, it holds one record for every
\* entity of the scene that carries a role tag (Player, Enemy, Projectile)
\* and none for the others.
OneRecordPerRoleBearer ==
    (writer \in DocumentWriters /\ IsSome(document)) =>
        LET doc == Unwrap(document)
        IN \A t \in EntityTypes :
               Cardinality({k \in 1 .. Len(doc) : doc[k].entity_type = t})
                   = Cardinality(WithRole(scene, t))

\* The claim's table of role defaults: health pair, collision value.
ClaimedHealth(t) == IF t = "Player" THEN <<100, 100>> ELSE <<50, 50>>
ClaimedCollision(t) == IF t = "Player" THEN 25 ELSE IF t = "Enemy" THEN 20 ELSE 5

\* The entity e built from the record d has the persisted health and
\* collision value where the record has them and the role default where it
\* has none; a Projectile has no health, a Player and only a Player a shooter.
DefaultsFill(d, e) ==
    /\ e.role = d.entity_type
    /\ e.health = IF d.entity_type = "Projectile" THEN None
                  ELSE IF IsSome(d.health) THEN d.health
                  ELSE Some(ClaimedHealth(d.entity_type))
    /\ e.collision = IF IsSome(d.collision_radius) THEN d.collision_radius
                     ELSE Some(ClaimedCollision(d.entity_type))
    /\ IsSome(e.shooting) <=> d.entity_type = "Player"

\* The entity e built from the record d has the transform and the sprite
\* asset written in the record.
PersistedKept(d, e) ==
    /\ e.pos = <<d.transform.x, d.transform.y>>
    /\ e.rotation = d.transform.rotation
    /\ e.scale = <<d.transform.scale_x, d.transform.scale_y>>
    /\ e.sprite_asset = d.sprite_asset

AuthoredLoaded == writer = "author" /\ IsSome(document) /\ IsSome(loaded)

\* The part of C19 about health, collision value and shooter alone.
DefaultsOnlyWhenAbsent ==
    AuthoredLoaded =>
        \A e \in DOMAIN Unwrap(loaded) :
            DefaultsFill(Unwrap(document)[1], Unwrap(loaded)[e])

\* C19: an entity built from a record gets a role default only for a field
\* the record does not have, and every field the record has is kept as
\* written: health 100/100 and collision 25 for a Player, 50/50 and 20 for
\* an Enemy, collision 5 and no health for a Projectile, each only when the
\* record has none; a shooter for a Player always.
DefaultsNeverOverwrite ==
    AuthoredLoaded =>
        /\ Cardinality(DOMAIN Unwrap(loaded)) = 1
        /\ \A e \in DOMAIN Unwrap(loaded) :
               /\ DefaultsFill(Unwrap(document)[1], Unwrap(loaded)[e])
               /\ PersistedKept(Unwrap(document)[1], Unwrap(loaded)[e])

\* The entities of the editor's world that carry a SceneEntity id.
WithId(w) == {e \in DOMAIN w : IsSome(w[e].id)}
UniqueIds(w) == \A a, b \in WithId(w) : a # b => w[a].id # w[b].id

\* C20: no two live entities of the editor carry the same SceneEntity id, and
\* when the editor spawns an entity, the id it hands out (next_id) is not the
\* id of any entity alive at that moment.
IdsNeverShared ==
    [][/\ UniqueIds(main_ents) /\ UniqueIds(main_ents')
       /\ (Ran("editor_ui") /\ input.a = "spawn_enemy") =>
              \A e \in WithId(main_ents) : main_ents[e].id # Some(next_id)]_vars

\* An enemy spawned after New Scene carries the first id again, next to
\* nothing else that carries it.
IdReusedAfterNewScene ==
    /\ phase = "idle"
    /\ \E e \in WithId(main_ents) :
           main_ents[e].id = Some(FirstId) /\ main_ents[e].pos = <<QuickEnemyX, 0>>
    /\ next_id = FirstId + 1

PointerWentDown == Ran("mouse_interaction") /\ input.a = "down"
UnderPointer == {e \in Live : Hit(ents[e], mouse_world_position)}
Marked(w) == {e \in DOMAIN w : w[e].selected}

\* The Commands queued by the step take the Selected marker off entity e.
MarkerTakenOff(e) == \E k \in Len(cmds) + 1 .. Len(cmds') : cmds'[k] = RemoveSelected(e)

\* C21: a pointer-down that hits an entity takes the Selected marker off
\* every other entity, makes the hit entity the selected one and starts a
\* drag whose offset is entity position minus pointer position; a
\* pointer-down that hits nothing takes every marker off, clears the
\* selection and ends the drag.
PointerDownSelects ==
    [][PointerWentDown =>
          IF UnderPointer # {}
          THEN /\ IsSome(selected_entity') /\ Unwrap(selected_entity') \in UnderPointer
               /\ \A e \in Marked(ents) \ {Unwrap(selected_entity')} : MarkerTakenOff(e)
               /\ dragging'
               /\ drag_offset' =
                      <<ents[Unwrap(selected_entity')].pos[1] - mouse_world_position[1],
                        ents[Unwrap(selected_entity')].pos[2] - mouse_world_position[2]>>
          ELSE /\ selected_entity' = None
               /\ \A e \in Marked(ents) : MarkerTakenOff(e)
               /\ ~dragging']_vars

\* C22: between two frames, while a drag is in progress, the dragged entity
\* is at pointer position plus the stored offset.
DraggedEntityAtPointer ==
    (phase = "idle" /\ ~panicked /\ dragging /\ IsSome(selected_entity)
        /\ IsAlive(Unwrap(selected_entity))) =>
        ents[Unwrap(selected_entity)].pos =
            <<mouse_world_position[1] + drag_offset[1],
              mouse_world_position[2] + drag_offset[2]>>

PointerWentUp == Ran("mouse_interaction") /\ input.a = "up"

\* C23: a pointer-up ends the drag and leaves the selection as it was.
PointerUpEndsDrag ==
    [][PointerWentUp => (~dragging' /\ selected_entity' = selected_entity)]_vars

\* The button has been released during a drag of a selected entity.
DragEndedWithSelection ==
    /\ phase = "frame" /\ input.a = "up" /\ "mouse_interaction" \notin pending
    /\ "entity_dragging" \in pending
    /\ ~dragging /\ IsSome(selected_entity) /\ IsAlive(Unwrap(selected_entity))
    /\ ents[Unwrap(selected_entity)].selected

\* C24: instant_movement is a one-shot flag.  A camera update that finds it
\* set puts the camera exactly at target_position and clears it; a camera
\* update that finds it clear moves the camera by interpolation and leaves
\* it clear; only camera_controls sets it.
SnapIsOneShot ==
    [][/\ Ran("camera_movement") =>
             /\ ~instant_movement'
             /\ camera_translation' =
                    IF instant_movement THEN target_position'
                    ELSE <<Lerp(camera_translation[1], target_position'[1], MoveRate),
                           Lerp(camera_translation[2], target_position'[2], MoveRate)>>
       /\ (~instant_movement /\ instant_movement') => Ran("camera_controls")]_vars

\* The camera has been dragged away from the origin with the right button,
\* has snapped to its target, and the flag is clear again.
CameraSnapped ==
    /\ phase = "idle" /\ ~right_pressed
    /\ target_position # <<0, 0>>
    /\ camera_translation = target_position
    /\ ~instant_movement

\* What the claim says one scroll event makes of the target zoom (hundredths).
AddClamped(tz, ev) == Max(10, Min(500, tz + ZoomDelta(ev)))

\* C25: target_zoom stays in [0.1, 5.0]; the wheel handler adds each event's
\* delta to the previous target_zoom and clamps after each one; no other
\* step changes target_zoom.
TargetZoomAddsAndClamps ==
    [][/\ target_zoom >= 10 /\ target_zoom <= 500
       /\ target_zoom' >= 10 /\ target_zoom' <= 500
       /\ IF Ran("handle_mouse_wheel_zoom")
          THEN target_zoom' =
                   CASE Len(scroll_events) = 0 -> target_zoom
                     [] Len(scroll_events) = 1 -> AddClamped(target_zoom, scroll_events[1])
                     [] OTHER -> AddClamped(AddClamped(target_zoom, scroll_events[1]),
                                            scroll_events[2])
          ELSE target_zoom' = target_zoom]_vars

\* The target zoom has been clamped at 5.0 and then scrolled down by 1.0.
ZoomClampedThenScrolled == phase = "idle" /\ target_zoom = ZoomMax - 10 * LineStep

\* The entities of w whose health is used up.
Exhausted(w) == {e \in DOMAIN w : IsSome(w[e].health) /\ Unwrap(w[e].health)[1] <= 0}

\* C26: between two frames no live entity has health <= 0, and an entity
\* whose health collision_detection has brought to <= 0 has its despawn
\* queued by that same run, so it is gone when the frame ends.
NoDeadButPresent ==
    [][/\ phase' = "idle" => Exhausted(ents') = {}
       /\ Ran("collision_detection") =>
              \A e \in Exhausted(ents') :
                  \E k \in 1 .. Len(cmds') : cmds'[k] = Despawn(e)]_vars

\* An enemy of the start scene has been shot down: its health reached 0 in
\* collision_detection and the frame's end has despawned it.
EnemyShotDown ==
    /\ phase = "idle" /\ playing
    /\ hits >= 2
    /\ WithRole(ents, "Enemy") = {}

\* C27: the play-mode state is Editing, Playing or Paused: paused is never
\* true while playing is false, and a click on Stop leaves playing = false,
\* paused = false, editor_mode = true.
PlayModeIsOneOfThree ==
    [][/\ paused' => playing'
       /\ (Ran("ui") /\ input.a \in StopButtons) =>
              (~playing' /\ ~paused' /\ editor_mode')]_vars

RoleTags == {"Player", "Enemy", "Projectile"}

\* C28: no entity carries more than one role tag: every entity of the editor
\* is exactly one of Player, Enemy, Projectile or role-less.
OneRoleTagEach ==
    \A e \in DOMAIN main_ents : Cardinality(main_ents[e].tags \cap RoleTags) <= 1

\* C29: a save that fails (serialization, directory creation or file write)
\* returns the error to the caller and leaves the state in memory as it was:
\* entities, selection, counters and snapshot.
FailedSaveReturnsError ==
    [][(save_fault = "none" /\ save_fault' # "none") =>
          /\ save_result' = ErrResult(save_fault')
          /\ UNCHANGED <<scene, loaded, engineVars, editorVars>>]_vars

\* C29 witness: the write of a scene of two entities failed.
SaveFailedOnWrite ==
    /\ save_fault = "write"
    /\ save_result = ErrResult("write")
    /\ Len(scene) = 2
    /\ document = None

\* C30: an import request for a file of an unsupported format (an extension
\* other than png, jpg, jpeg, or none) is never placed in the import queue,
\* whichever entry point takes it.
QueueHoldsSupportedOnly ==
    \A i \in 1 .. Len(import_queue) :
        /\ IsSome(import_queue[i].extension)
        /\ Unwrap(import_queue[i].extension) \in SupportedExtensions

\* C31: the restore is applied once and the snapshot is discarded with it: the
\* play-mode transition queues a despawn or a spawn only in the step in which
\* it takes a snapshot and drops it, and a snapshot is taken only by a step
\* that starts play; without a snapshot, in editing, the transition leaves
\* entities and commands alone.
RestoreAppliedOnce ==
    [][/\ Ran("handle_play_mode_transition") =>
            /\ ents' = ents
            /\ IF ~playing /\ editor_mode /\ IsSome(saved_scene_data)
               THEN saved_scene_data' = None
               ELSE cmds' = cmds /\ saved_scene_data' = saved_scene_data
       /\ (saved_scene_data = None /\ IsSome(saved_scene_data')) => (~playing /\ playing')
      ]_vars

\* C31 witness: in the frame after a Stop, with no input, the transition has
\* run: the snapshot is gone and its spawns are queued.
SnapshotRestoredAndDropped ==
    /\ phase = "frame" /\ pending = {} /\ input = NoInput
    /\ lifecycle = "restoring"
    /\ saved_scene_data = None
    /\ ~playing /\ editor_mode /\ ~should_spawn
    /\ \E k \in 1 .. Len(cmds) : cmds[k].op = "spawn"

\* C32: while playing, one press of P leaves paused the negation of what it
\* was when the tick began, every system that reacts to P counted; one press
\* of F1 does the same to debug_mode.
OnePressOneFlip ==
    (phase = "frame" /\ pending = {} /\ input.k = "key") =>
        /\ (input.a = "P" /\ playing) => paused = ~tick_start.paused
        /\ input.a = "F1" => debug_mode = ~tick_start.debug_mode

\* C33: while the game keeps playing unpaused every projectile is despawned
\* in the end: if from some frame on the game is playing and not paused,
\* then again and again no projectile is left.
ProjectilesEventuallyDespawned ==
    <>[](playing /\ ~paused) => []<>(WithRole(ents, "Projectile") = {})

\* C34: shooting respects the cooldown of 0.3 s: between two shots of the
\* player at least 0.3 s of playing, unpaused time go by, however long the
\* frames are, and each shot queues one projectile and adds one to
\* shots_fired.
ShotsRespectCooldown ==
    [][shots_fired' # shots_fired =>
          /\ shots_fired' = shots_fired + 1
          /\ spawned' = spawned + 1
          /\ shots_fired > 0 => since_shot + tick_delta >= ShootCooldown]_vars

\* The projectiles that collision_detection despawned in this step.
Hitters ==
    {p \in WithRole(ents, "Projectile") :
        \E k \in Len(cmds) + 1 .. Len(cmds') : cmds'[k] = Despawn(p)}

RECURSIVE HealthLost(_)
HealthLost(es) ==
    IF es = {} THEN 0
    ELSE LET e == CHOOSE x \in es : TRUE
         IN Unwrap(ents[e].health)[1] - Unwrap(ents'[e].health)[1]
            + HealthLost(es \ {e})

\* C35: in a tick of collision_detection every projectile that hits is
\* despawned and counts one hit and 25 points of damage, on one enemy; an
\* enemy whose health is at or below 0 is not hit again.
OneHitPerProjectile ==
    [][Ran("collision_detection") =>
          LET enemies == {e \in WithRole(ents, "Enemy") : IsSome(ents[e].health)}
          IN /\ hits' = hits + Cardinality(Hitters)
             /\ HealthLost(enemies) = Damage * Cardinality(Hitters)
             /\ \A e \in enemies :
                    ents'[e].health # ents[e].health =>
                        Unwrap(ents'[e].health)[1] + Damage > 0]_vars

\* C36: a queued path whose file exists is moved to pending_imports while it
\* loads (and from there is registered in loaded_images or reported in
\* failed_imports): whatever the importer has started loading is pending.
LoadingImportsArePending ==
    \A path \in loading_assets : Contains(pending_imports, path)

\* The spawn commands of a queue, in order.
SpawnsOf(q) == SelectSeq(q, LAMBDA c : c.op = "spawn")

\* entity_spawn_system queues one spawn of the requested role at the requested
\* position with the defaults of the role and clears should_spawn; with no
\* request it queues nothing.
QueuesOneWithDefaults ==
    IF should_spawn
    THEN /\ ~should_spawn'
         /\ Len(cmds') = Len(cmds) + 1
         /\ SubSeq(cmds', 1, Len(cmds)) = cmds
         /\ LET c == cmds'[Len(cmds')]
            IN /\ c.op = "spawn"
               /\ c.data.role = spawn_entity_type
               /\ c.data.pos = spawn_position
               /\ c.data.health =
                      CASE spawn_entity_type = "Player" -> Some(<<100, 100>>)
                        [] spawn_entity_type = "Enemy" -> Some(<<50, 50>>)
                        [] OTHER -> None
               /\ c.data.collision =
                      CASE spawn_entity_type = "Player" -> Some(25)
                        [] spawn_entity_type = "Enemy" -> Some(20)
                        [] OTHER -> Some(5)
    ELSE cmds' = cmds /\ ~should_spawn'

\* The spawns queued in a frame enter the World at its end, one entity each.
QueuedSpawnsEnterWorld ==
    (phase = "frame" /\ phase' = "idle" /\ ~panicked') =>
        LET sp == SpawnsOf(cmds)
        IN /\ nextEntity' = nextEntity + Len(sp)
           /\ \A k \in 1 .. Len(sp) :
                  LET e == nextEntity + k - 1
                  IN e \notin DOMAIN ents /\
                     (e \in DOMAIN ents' => ents'[e] = sp[k].data)

\* The part of C37 on the entity made: one per tick of entity_spawn_system
\* with a request, of the requested role and position, with the defaults.
SpawnRequestMakesOne ==
    [][(Ran("entity_spawn_system") => QueuesOneWithDefaults) /\ QueuedSpawnsEnterWorld]_vars

\* C37: a spawn request makes one entity: when should_spawn is set, the tick
\* of entity_spawn_system spawns one entity of the requested role at the
\* requested position with the defaults of the role (Player 100/100 and 25,
\* Enemy 50/50 and 20, Projectile no health and 5), allocates the next id of
\* the SceneManager for it, and clears should_spawn.
SpawnAllocatesNextId ==
    [][/\ Ran("entity_spawn_system") =>
            /\ QueuesOneWithDefaults
            /\ should_spawn => scene_next_id' = scene_next_id + 1
       /\ QueuedSpawnsEnterWorld]_vars

\* A projectile asked for at the pointer has been spawned by
\* entity_spawn_system in the frame of the click and is in the World.
SpawnedProjectileAtMouse ==
    /\ phase = "idle" /\ ~should_spawn /\ ~playing
    /\ spawn_entity_type = "Projectile"
    /\ \E e \in WithRole(ents, "Projectile") :
          /\ e = nextEntity - 1
          /\ ents[e].pos = spawn_position
          /\ ents[e].health = None
          /\ ents[e].collision = Some(ProjectileRadius)

\* C38: SelectedEntity and the Selected marker agree at every tick boundary:
\* SelectedEntity.entity = Some(e) exactly when e carries the marker.
SelectionAgreesWithMarker ==
    (phase = "idle" /\ ~panicked) =>
        Marked(ents) = (IF IsSome(selected_entity) THEN {Unwrap(selected_entity)} ELSE {})

\* C39: a drag always has a target: DragState.dragging implies that
\* SelectedEntity.entity is Some(e) with e alive.
DragHasLiveTarget ==
    (dragging /\ ~panicked) =>
        IsSome(selected_entity) /\ IsAlive(Unwrap(selected_entity))

\* C40: ShootingStats.hits never exceeds ShootingStats.shots_fired.
HitsAtMostShots == hits <= shots_fired

====
